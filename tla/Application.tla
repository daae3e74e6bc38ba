----------------------------- MODULE Application -----------------------------
(***************************************************************************)
(* The interactive application that talks to a client process.             *)
(*                                                                         *)
(* A line is split into words.  A command opens its file and queues an     *)
(* event.  A worker sends the request, having entered it into two sets per *)
(* operation: that of the application, ordered by key and file, and that   *)
(* of the clients, by key and socket.  A response is looked up in both, under their locks, and    *)
(* the result goes to the file found.  Two requests are the same entry of  *)
(* the clients' set when they have the same key, and a lookup that fails   *)
(* leaves without releasing the lock.                                      *)
(***************************************************************************)
EXTENDS Naturals, Sequences, FiniteSets

CONSTANTS
    Lines,          \* what the user types, as words; a path is the descriptor it
                    \*   is opened as, or the one in NoFile
    NoFile,
    Workers,
    Patient         \* a key is not asked for again before the last answer to it

VARIABLES
    entered,        \* commands so far
    queue,          \* events: commands to send, responses to read
    doing,          \* of each worker: the step it is at
    application,    \* pending requests of the application
    clients,        \* pending requests of the clients, without the file
    locks,          \* locks that are held
    sent,           \* requests the client has to answer
    results         \* files with a result, and their commands
applicationVars == <<entered, queue, doing, application, clients, locks, sent, results>>

Idle == [step |-> "idle"]
Entry(c) == [op |-> c.op, key |-> c.key]

ApplicationInit ==
    /\ entered = {} /\ queue = <<>> /\ doing = [w \in Workers |-> Idle]
    /\ application = {} /\ clients = {} /\ locks = {} /\ sent = <<>> /\ results = {}

\* Words of the commands that make requests; the others show something.
Expected == [get |-> 3, set |-> 3, update |-> 4, delete |-> 2]

\* Application::interactive: words after the fourth are not counted, and a line that
\* begins with no command has as many as are expected of it, none.
Counted(words) ==
    IF words[1] \in DOMAIN Expected THEN IF Len(words) > 4 THEN 4 ELSE Len(words) ELSE 0
Accepted(words) ==
    Counted(words) = IF words[1] \in DOMAIN Expected THEN Expected[words[1]] ELSE 0
Request(words) ==
    [op |-> words[1], key |-> words[2], file |-> IF words[1] = "delete" THEN 0 ELSE words[3]]

\* Application::set, get, update and del: the file is opened and the event queued.
Enter(words) ==
    /\ Accepted(words) /\ Counted(words) > 0
    /\ LET c == Request(words)
       IN  /\ c \notin entered /\ c.file # NoFile
           /\ Patient => \A d \in entered : Entry(d) = Entry(c) => \E r \in results : r.command = d
           /\ entered' = entered \cup {c}
           /\ queue' = Append(queue, [type |-> "REQUEST", command |-> c])
    /\ UNCHANGED <<doing, application, clients, locks, sent, results>>

\* ApplicationWorker::run
Extract(w) ==
    /\ doing[w] = Idle /\ queue # <<>>
    /\ queue' = Tail(queue)
    /\ doing' = [doing EXCEPT ![w] =
            IF Head(queue).type = "REQUEST"
            THEN [step |-> "insertApplication", command |-> Head(queue).command]
            ELSE [step |-> "eraseClients", entry |-> Head(queue).entry]]
    /\ UNCHANGED <<entered, application, clients, locks, sent, results>>

Free(side, op) == <<side, op>> \notin locks

\* A command is entered into both sets before the request is sent.
InsertApplication(w) ==
    /\ doing[w].step = "insertApplication"
    /\ Free("application", doing[w].command.op)
    /\ application' = application \cup {doing[w].command}
    /\ doing' = [doing EXCEPT ![w].step = "insertClients"]
    /\ UNCHANGED <<entered, queue, clients, locks, sent, results>>

InsertClients(w) ==
    /\ doing[w].step = "insertClients"
    /\ Free("clients", doing[w].command.op)
    /\ clients' = clients \cup {Entry(doing[w].command)}
    /\ doing' = [doing EXCEPT ![w].step = "send"]
    /\ UNCHANGED <<entered, queue, application, locks, sent, results>>

Send(w) ==
    /\ doing[w].step = "send"
    /\ sent' = Append(sent, Entry(doing[w].command))
    /\ doing' = [doing EXCEPT ![w] = Idle]
    /\ UNCHANGED <<entered, queue, application, clients, locks, results>>

\* The client answers, and epoll queues an event for the response.
Respond ==
    /\ sent # <<>>
    /\ queue' = Append(queue, [type |-> "PENDING", entry |-> Head(sent)])
    /\ sent' = Tail(sent)
    /\ UNCHANGED <<entered, doing, application, clients, locks, results>>

\* A response takes its entry from the clients' set.
EraseClients(w) ==
    /\ doing[w].step = "eraseClients"
    /\ LET e == doing[w].entry
       IN  /\ Free("clients", e.op)
           /\ IF e \in clients
              THEN /\ clients' = clients \ {e}
                   /\ doing' = [doing EXCEPT ![w].step = "eraseApplication"]
                   /\ UNCHANGED locks
              ELSE /\ locks' = locks \cup {<<"clients", e.op>>}
                   /\ doing' = [doing EXCEPT ![w] = Idle]
                   /\ UNCHANGED clients
    /\ UNCHANGED <<entered, queue, application, sent, results>>

\* Then the first entry with the key, in the order of the files, from the
\* application's: lower_bound with no file.
EraseApplication(w) ==
    /\ doing[w].step = "eraseApplication"
    /\ LET e == doing[w].entry
           found == {c \in application : Entry(c) = e}
       IN  /\ Free("application", e.op)
           /\ IF found # {}
              THEN LET c == CHOOSE x \in found : \A y \in found : x.file <= y.file
                   IN  /\ application' = application \ {c}
                       /\ results' = results \cup {[file |-> c.file, command |-> c]}
                       /\ UNCHANGED locks
              ELSE /\ locks' = locks \cup {<<"application", e.op>>}
                   /\ UNCHANGED <<application, results>>
    /\ doing' = [doing EXCEPT ![w] = Idle]
    /\ UNCHANGED <<entered, queue, clients, sent>>

ApplicationNext ==
    \/ \E words \in Lines : Enter(words)
    \/ \E w \in Workers : \/ Extract(w) \/ InsertApplication(w) \/ InsertClients(w) \/ Send(w)
                          \/ EraseClients(w) \/ EraseApplication(w)
    \/ Respond

\* Every command has its result once nothing is left to do, and no lock stays held:
\* the user who waits for an answer before asking again for a key always gets it.
CommandsAnswered ==
    queue = <<>> /\ sent = <<>> /\ (\A w \in Workers : doing[w] = Idle) =>
        /\ application = {} /\ clients = {} /\ locks = {}
        /\ {r.command : r \in results} = entered
=============================================================================
