----------------------------- MODULE Timestamps -----------------------------
(***************************************************************************)
(* A server's clock of operations (common/timestamp): a 32-bit counter     *)
(* that gives each operation the value it had before, and wraps around.    *)
(***************************************************************************)
EXTENDS Naturals

CONSTANTS
    TsLimit,    \* stamps are taken modulo TsLimit
    TsStarts    \* first stamps

ASSUME StampAssumption == TsLimit \in Nat \ {0} /\ TsStarts \subseteq 0 .. TsLimit - 1

Tick(t) == (t + 1) % TsLimit
=============================================================================
