--------------------------- MODULE FlairGenerator ---------------------------
(***************************************************************************)
(* The flair generator of src/tools: a console program that asks the game  *)
(* coordinator (GC) for the featured item of every account of              *)
(* bot_info.json and writes the answers into that file.                    *)
(*                                                                         *)
(* Three parties interleave: the main task (Program.cs, and the awaiting   *)
(* half of Cs2GcClient), the callback pump thread (the On... handlers of   *)
(* Cs2GcClient), and Steam with its GC, which answers a request late,      *)
(* twice asked, or never.  The program can be killed at any step and run   *)
(* again on the file it left.                                              *)
(***************************************************************************)
EXTENDS Integers, FiniteSets, Sequences, FiniteSetsExt

CONSTANTS
  Accounts,         \* account IDs the keys of the file name
  Invalid,          \* a key TryReadAccountId rejects names no account
  AccountOf,        \* the account of each key, in file order
  OldFlair,         \* the flairs of the file before the first run
  FlairOf,          \* what the GC answers for an account
  CheckpointEvery,  \* updates between two saves (25 in the code)
  MaxAttempts,      \* attempts of one profile request (3)
  MaxCmRetries,     \* changes of the connection manager (5)
  NoRequest,        \* no profile request is pending
  Torn,             \* a file that is not a whole document
  NoFile,           \* the temporary file does not exist
  MaxRuns           \* bound of the model: runs of the program

Keys == DOMAIN AccountOf
Flairs == {OldFlair[k] : k \in Keys} \cup {FlairOf[a] : a \in Accounts} \cup {0}
Contents == [Keys -> Flairs]

ASSUME GeneratorAssumption ==
  /\ AccountOf \in Seq(Accounts \cup {Invalid})
  /\ Invalid \notin Accounts
  /\ OldFlair \in [Keys -> Nat]
  /\ FlairOf \in [Accounts -> Nat]
  /\ {CheckpointEvery, MaxAttempts, MaxRuns} \subseteq Nat \ {0}
  /\ MaxCmRetries \in Nat
  /\ Torn \notin Contents

VARIABLES
  pc,           \* where the main task is
  todo,         \* the entries still to query
  attempt,      \* of the current profile request
  outcome,      \* how the await of the request ended
  saving,       \* which save is running
  cancelled,    \* Ctrl-C was pressed
  exit,         \* exit code of the last run
  runs,
  root,         \* the JSON document in memory
  file,         \* bot_info.json
  tmp,          \* the temporary file of a save
  cache,        \* answers of this run by account
  updated,      \* entries written into root
  overwrite,
  gcReady,      \* _gcReady
  pending,      \* _pendingProfile and _pendingAccountId
  completion,   \* the completion source the main task awaits
  captured,     \* the completion CompleteProfileRequest took under the lock
  session,      \* state of the Steam connection
  token,        \* the refresh token is known
  retries,      \* _connectionManagerRetries
  outstanding   \* requests the GC has not answered

taskVars == << pc, todo, attempt, outcome, saving, exit, runs >>
dataVars == << root, cache, updated, overwrite >>
diskVars == << file, tmp >>
clientVars == << gcReady, pending, completion, captured >>
steamVars == << session, token, retries, outstanding >>
vars == << taskVars, cancelled, dataVars, diskVars, clientVars, steamVars >>

\* The entries are taken in file order.
Requests == Keys \X (1 .. MaxAttempts)
Entry == Min(todo)
Current == << Entry, attempt >>
Account == AccountOf[Entry]
AccountAsked(id) == AccountOf[id[1]]

TypeOK ==
  /\ pc \in {"connect", "next", "query", "await", "close", "backoff", "pause",
             "write", "writing", "move", "down"}
  /\ todo \subseteq Keys
  /\ attempt \in 1 .. MaxAttempts
  /\ outcome \in {"none", "value", "failed", "cancelled", "timeout"}
  /\ saving \in {"none", "checkpoint", "final"}
  /\ cancelled \in BOOLEAN /\ overwrite \in BOOLEAN /\ token \in BOOLEAN
  /\ exit \in {"none", "killed", "ok", "error", "cancelled"}
  /\ runs \in 0 .. MaxRuns
  /\ root \in Contents /\ file \in Contents \cup {Torn}
  /\ tmp \in Contents \cup {Torn, NoFile}
  /\ DOMAIN cache \subseteq Accounts /\ \A a \in DOMAIN cache : cache[a] \in Flairs
  /\ updated \in 0 .. Len(AccountOf)
  /\ gcReady \in {"pending", "ready", "failed"}
  /\ pending \in Requests \cup {NoRequest}
  /\ completion \in [id : Requests \cup {NoRequest}, state : {"open", "failed", "set"},
                    flair : Flairs]
  /\ captured \in [id : Requests, flair : Flairs] \cup {NoRequest}
  /\ session \in {"connecting", "authorizing", "loggingOn", "closing", "hello",
                  "gc", "down"}
  /\ retries \in 0 .. MaxCmRetries
  /\ outstanding \subseteq Requests
-----------------------------------------------------------------------------
(* Choosing the entries and starting.                                      *)

\* ReadEntries: the entries with an account ID and, unless --overwrite is
\* given, without a flair.
ReadEntries_All(document, all) == {k \in Keys : AccountOf[k] # Invalid}
ReadEntries(document, all) ==
  {k \in Keys : AccountOf[k] # Invalid /\ (all \/ document[k] = 0)}

\* The task returns with code; the client is disposed on the way out.
Exit(code) ==
  /\ pc' = "down" /\ exit' = code
  /\ UNCHANGED << todo, attempt, outcome, saving, runs >>

Goto(label) ==
  /\ pc' = label
  /\ UNCHANGED << todo, attempt, outcome, saving, exit, runs >>

\* A fresh client and an empty cache; the file is read once.
Start(all) ==
  /\ pc = "down" /\ runs < MaxRuns
  /\ runs' = runs + 1
  /\ todo' = ReadEntries(file, all)
  /\ IF todo' = {} THEN pc' = "down" /\ exit' = "ok" ELSE pc' = "connect" /\ exit' = "none"
  /\ attempt' = 1 /\ outcome' = "none" /\ saving' = "none"
  /\ root' = file /\ cache' = << >> /\ updated' = 0 /\ overwrite' = all
  /\ cancelled' = FALSE /\ tmp' = NoFile
  /\ gcReady' = "pending" /\ pending' = NoRequest /\ captured' = NoRequest
  /\ completion' = [id |-> NoRequest, state |-> "open", flair |-> 0]
  /\ session' = "connecting" /\ token' = FALSE /\ retries' = 0 /\ outstanding' = {}
  /\ UNCHANGED file

\* ConnectAsync waits three minutes for _gcReady.
ConnectAsync ==
  /\ pc = "connect"
  /\ \/ gcReady = "ready" /\ Goto("next")
     \/ gcReady # "ready" /\ Exit("error")
     \/ gcReady = "pending" /\ cancelled /\ Exit("cancelled")
  /\ UNCHANGED << cancelled, dataVars, diskVars, clientVars, steamVars >>
-----------------------------------------------------------------------------
(* PopulateFlairsAsync.                                                    *)

CheckpointDue_BeforeCount == updated # 0 /\ updated % CheckpointEvery = 0
CheckpointDue == (updated + 1) % CheckpointEvery = 0

\* The answer is stored and every CheckpointEvery-th one is saved.
Record ==
  /\ root' = [root EXCEPT ![Entry] = cache[Account]]
  /\ updated' = updated + 1
  /\ todo' = todo \ {Entry}
  /\ IF CheckpointDue
     THEN pc' = "write" /\ saving' = "checkpoint"
     ELSE pc' = "next" /\ UNCHANGED saving
  /\ UNCHANGED << attempt, outcome, exit, runs, cache, overwrite >>

FinalSave ==
  /\ pc' = "write" /\ saving' = "final"
  /\ UNCHANGED << todo, attempt, outcome, exit, runs, dataVars >>

\* The head of the loop, and the save of Main after it.
NextEntry ==
  /\ pc = "next"
  /\ \/ todo # {} /\ cancelled /\ Exit("cancelled") /\ UNCHANGED dataVars
     \/ todo # {} /\ ~cancelled /\ Account \in DOMAIN cache /\ Record
     \/ /\ todo # {} /\ ~cancelled /\ Account \notin DOMAIN cache
        /\ Goto("query") /\ UNCHANGED dataVars
     \/ todo = {} /\ FinalSave
  /\ UNCHANGED << cancelled, diskVars, clientVars, steamVars >>

\* GetFeaturedDisplayItemAsync up to its await; a request sent without a GC
\* session is lost.
SendRequest ==
  /\ pc = "query"
  /\ \/ pending # NoRequest /\ Exit("error") /\ UNCHANGED << clientVars, steamVars >>
     \/ /\ pending = NoRequest
        /\ pending' = Current
        /\ completion' = [id |-> Current, state |-> "open", flair |-> 0]
        /\ outstanding' = outstanding \cup {r \in {Current} : session = "gc"}
        /\ Goto("await")
        /\ UNCHANGED << gcReady, captured, session, token, retries >>
  /\ UNCHANGED << cancelled, dataVars, diskVars >>

\* WaitAsync: the completion, the cancellation or the 15 seconds, whichever
\* comes first.
AwaitProfile(how) ==
  /\ pc = "await"
  /\ how = "value" => completion.state = "set"
  /\ how = "failed" => completion.state = "failed"
  /\ how \in {"cancelled", "timeout"} => completion.state = "open"
  /\ how = "cancelled" => cancelled
  /\ outcome' = how /\ pc' = "close"
  /\ UNCHANGED << todo, attempt, saving, exit, runs, cancelled, dataVars,
                  diskVars, clientVars, steamVars >>

\* What QueryWithRetriesAsync does with a timeout: again after a pause, or,
\* after the last attempt, on to the next entry.
TimedOut_Forever ==
  pc' = "backoff" /\ attempt' = 1 /\ UNCHANGED todo
TimedOut ==
  IF attempt < MaxAttempts
  THEN pc' = "backoff" /\ UNCHANGED << todo, attempt >>
  ELSE pc' = "next" /\ todo' = todo \ {Entry} /\ attempt' = 1

ReleasePending_Never == UNCHANGED pending
ReleasePending == pending' = NoRequest

\* The finally block of the request, and where its outcome leads.
CloseRequest ==
  /\ pc = "close"
  /\ ReleasePending
  /\ \/ /\ outcome = "value"
        /\ cache' = [a \in DOMAIN cache \cup {Account} |->
                       IF a = Account THEN completion.flair ELSE cache[a]]
        /\ pc' = "pause" /\ attempt' = 1
        /\ UNCHANGED << todo, exit >>
     \/ outcome = "timeout" /\ TimedOut /\ UNCHANGED << exit, cache >>
     \/ /\ outcome \in {"failed", "cancelled"}
        /\ pc' = "down" /\ exit' = (IF outcome = "failed" THEN "error" ELSE "cancelled")
        /\ UNCHANGED << todo, attempt, cache >>
  /\ UNCHANGED << outcome, saving, runs, root, updated, overwrite, cancelled,
                  diskVars, gcReady, completion, captured, steamVars >>

\* The pause between two attempts.
Backoff ==
  /\ pc = "backoff"
  /\ \/ cancelled /\ Exit("cancelled")
     \/ /\ ~cancelled
        /\ pc' = "query"
        /\ attempt' = attempt + 1
        /\ UNCHANGED << todo, outcome, saving, exit, runs >>
  /\ UNCHANGED << cancelled, dataVars, diskVars, clientVars, steamVars >>

\* The pause after an answer, before it is stored in the document.
Pause ==
  /\ pc = "pause"
  /\ \/ cancelled /\ Exit("cancelled") /\ UNCHANGED dataVars
     \/ ~cancelled /\ Record
  /\ UNCHANGED << cancelled, diskVars, clientVars, steamVars >>
-----------------------------------------------------------------------------
(* SaveJsonAsync: a temporary file is written and renamed over the file.   *)

WriteTemporary ==
  /\ pc = "write" /\ ~cancelled
  /\ tmp' = Torn /\ Goto("writing")
  /\ UNCHANGED << cancelled, dataVars, file, clientVars, steamVars >>

TemporaryWritten ==
  /\ pc = "writing"
  /\ tmp' = root /\ Goto("move")
  /\ UNCHANGED << cancelled, dataVars, file, clientVars, steamVars >>

\* File.Move, and the return of the save.
MoveOver ==
  /\ pc = "move"
  /\ file' = tmp /\ tmp' = NoFile
  /\ IF saving = "final" THEN Exit("ok") ELSE Goto("next")
  /\ UNCHANGED << cancelled, dataVars, clientVars, steamVars >>

\* A save that is cancelled or fails deletes the temporary file.
SaveFails ==
  /\ \/ pc \in {"write", "writing"} /\ cancelled /\ Exit("cancelled")
     \/ pc \in {"write", "writing", "move"} /\ Exit("error")
  /\ tmp' = NoFile
  /\ UNCHANGED << cancelled, dataVars, file, clientVars, steamVars >>
-----------------------------------------------------------------------------
(* The callback pump.  It runs one handler at a time: none while a captured*)
(* completion is being set.                                                *)

Pumping == pc # "down" /\ captured = NoRequest

FailSession ==
  /\ gcReady' = IF gcReady = "pending" THEN "failed" ELSE gcReady
  /\ completion' = IF pending # NoRequest /\ completion.state = "open"
                   THEN [completion EXCEPT !.state = "failed"] ELSE completion
  /\ UNCHANGED << pending, captured >>

Handled == UNCHANGED << taskVars, cancelled, dataVars, diskVars >>

OnConnected ==
  /\ Pumping /\ session = "connecting"
  /\ session' = IF token THEN "loggingOn" ELSE "authorizing"
  /\ Handled /\ UNCHANGED << clientVars, token, retries, outstanding >>

\* The end of the QR login of OnConnected.
Authorized(ok) ==
  /\ Pumping /\ session = "authorizing"
  /\ token' = ok
  /\ IF ok THEN session' = "loggingOn" /\ UNCHANGED clientVars
           ELSE session' = "down" /\ FailSession
  /\ Handled /\ UNCHANGED << retries, outstanding >>

OnLoggedOn(result) ==
  /\ Pumping /\ session = "loggingOn"
  /\ \/ /\ result = "TryAnotherCM" /\ retries < MaxCmRetries
        /\ retries' = retries + 1
        /\ session' = "closing"     \* _retryingConnectionManager
        /\ UNCHANGED clientVars
     \/ result = "OK" /\ session' = "hello" /\ UNCHANGED << clientVars, retries >>
     \/ /\ result = "TryAnotherCM" => retries = MaxCmRetries
        /\ result # "OK"
        /\ session' = "down" /\ FailSession /\ UNCHANGED retries
  /\ Handled /\ UNCHANGED << token, outstanding >>

\* OnLoggedOff and OnDisconnected: expected while the connection manager is
\* being changed, the end of the session otherwise.
OnLoggedOff ==
  /\ Pumping /\ session \in {"hello", "gc"}
  /\ session' = "down" /\ FailSession
  /\ Handled /\ UNCHANGED << token, retries, outstanding >>

OnDisconnected ==
  /\ Pumping /\ session # "down"
  /\ IF session = "closing"
     THEN session' = "connecting" /\ UNCHANGED clientVars
     ELSE session' = "down" /\ FailSession
  /\ Handled /\ UNCHANGED << token, retries, outstanding >>

OnWelcome ==
  /\ Pumping /\ session = "hello"
  /\ session' = "gc"
  /\ gcReady' = IF gcReady = "pending" THEN "ready" ELSE gcReady
  /\ Handled /\ UNCHANGED << pending, completion, captured, token, retries, outstanding >>

\* CompleteProfileRequest up to its unlock: the answer to an earlier request
\* counts if it is about the account now asked for.
Answers_Any(id) == pending # NoRequest
Answers(id) == pending # NoRequest /\ AccountAsked(pending) = AccountAsked(id)

OnProfile(id) ==
  /\ Pumping /\ session = "gc" /\ id \in outstanding
  /\ outstanding' = outstanding \ {id}
  /\ captured' = IF Answers(id)
                 THEN [id |-> pending, flair |-> FlairOf[AccountAsked(id)]]
                 ELSE NoRequest
  /\ Handled /\ UNCHANGED << gcReady, pending, completion, session, token, retries >>

\* TrySetResult, after the unlock: the completion may have been abandoned.
CompleteCaptured ==
  /\ pc # "down" /\ captured # NoRequest
  /\ completion' = IF completion.id = captured.id /\ completion.state = "open"
                   THEN [completion EXCEPT !.state = "set", !.flair = captured.flair]
                   ELSE completion
  /\ captured' = NoRequest
  /\ Handled /\ UNCHANGED << gcReady, pending, steamVars >>
-----------------------------------------------------------------------------
Cancel ==
  /\ pc # "down" /\ ~cancelled
  /\ cancelled' = TRUE
  /\ UNCHANGED << taskVars, dataVars, diskVars, clientVars, steamVars >>

\* The process dies; what is on disk stays.
Kill ==
  /\ pc # "down"
  /\ Exit("killed")
  /\ UNCHANGED << cancelled, dataVars, diskVars, clientVars, steamVars >>

Init ==
  /\ pc = "down" /\ todo = {} /\ attempt = 1
  /\ outcome = "none" /\ saving = "none" /\ exit = "none" /\ runs = 0
  /\ cancelled = FALSE /\ overwrite = FALSE /\ cache = << >> /\ updated = 0
  /\ file = OldFlair /\ root = OldFlair /\ tmp = NoFile
  /\ gcReady = "pending" /\ pending = NoRequest /\ captured = NoRequest
  /\ completion = [id |-> NoRequest, state |-> "open", flair |-> 0]
  /\ session = "down" /\ token = FALSE /\ retries = 0 /\ outstanding = {}

MainTask ==
  \/ ConnectAsync \/ NextEntry \/ SendRequest
  \/ \E how \in {"value", "failed", "cancelled", "timeout"} : AwaitProfile(how)
  \/ CloseRequest \/ Backoff \/ Pause
  \/ WriteTemporary \/ TemporaryWritten \/ MoveOver \/ SaveFails

CallbackPump ==
  \/ OnConnected \/ OnLoggedOff \/ OnDisconnected \/ OnWelcome \/ CompleteCaptured
  \/ \E ok \in BOOLEAN : Authorized(ok)
  \/ \E result \in {"OK", "TryAnotherCM", "Denied"} : OnLoggedOn(result)
  \/ \E id \in outstanding : OnProfile(id)

Next ==
  \/ \E all \in BOOLEAN : Start(all)
  \/ MainTask
  \/ CallbackPump
  \/ Cancel
  \/ Kill

Spec == Init /\ [][Next]_vars

\* The task is scheduled and its timers fire; Steam and its GC owe nothing.
FairSpec == Spec /\ WF_vars(MainTask)
-----------------------------------------------------------------------------
\* An entry holds the flair it had or the one the GC gave for its own
\* account, in memory and on disk, however late answers come
\* (CompleteProfileRequest, and the cache of PopulateFlairsAsync).
RightFlair ==
  \A k \in Keys : \A document \in {root, file} \ {Torn} :
    document[k] \in {OldFlair[k]} \cup {FlairOf[a] : a \in {AccountOf[k]} \cap Accounts}

\* A crash or a failure at any moment leaves a whole document (SaveJsonAsync is
\* "atomic") without at most the answers since the last checkpoint, also when
\* entries that timed out lie between (the checkpoint of PopulateFlairsAsync).
LossBounded ==
  /\ file # Torn
  /\ Cardinality({k \in Keys : root[k] # file[k]}) <= CheckpointEvery

\* The exception "Only one profile request may be active." is never thrown,
\* whichever of answer, timeout and failure ended the request before.
OneRequestAtATime == pc = "query" => pending = NoRequest

\* Every run ends, even if Steam falls silent (the timeouts of ConnectAsync
\* and WaitAsync and the three attempts of QueryWithRetriesAsync).
RunEnds == pc # "down" ~> pc = "down"

File == INSTANCE FlairFile
  WITH Old <- OldFlair, Batch <- CheckpointEvery, replacing <- overwrite,
       Answer <- [k \in {e \in Keys : AccountOf[e] # Invalid} |-> FlairOf[AccountOf[k]]]

\* Whatever ends a run, and in whatever order answers come, the file changes only
\* by whole saves of answers to its own entries (SaveJsonAsync, ReadEntries).
ImplementsFile == File!Spec

\* Without --overwrite a flair that is in the file stays as it is, across
\* crashes and runs (ReadEntries): what ImplementsFile means for one flair.
KeepsFlairs ==
  [][~overwrite =>
       \A k \in Keys : file # Torn /\ file[k] # 0 => file'[k] = file[k]]_vars
=============================================================================
