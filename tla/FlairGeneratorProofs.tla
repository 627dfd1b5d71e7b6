------------------------- MODULE FlairGeneratorProofs -------------------------
(***************************************************************************)
(* The flair generator never writes a wrong flair, never loses more than   *)
(* the answers since the last checkpoint and never asks twice at a time,   *)
(* for any file, any answers and any interleaving of late answers.         *)
(***************************************************************************)
EXTENDS FlairGenerator, FiniteSetTheorems, TLAPS

(***************************************************************************)
(* Entries, requests and answers.                                          *)
(***************************************************************************)
Valid(k) == AccountOf[k] \in Accounts

\* An entry is chosen while the loop works on it, and only entries with an
\* account are.
EntryChosen ==
  /\ \A k \in todo : Valid(k)
  /\ pc \in {"query", "await", "close", "backoff", "pause"} => todo # {}
  /\ pc = "backoff" => attempt < MaxAttempts

\* A pending request is the one the task waits for.
PendingIsCurrent ==
  /\ pending # NoRequest => pc \in {"await", "close", "down"}
  /\ pc \in {"await", "close"} => pending = Current /\ completion.id = Current

\* What the task, the pump and the coordinator hold are answers to the accounts
\* they name.
AnswersRight ==
  /\ \A id \in outstanding : Valid(id[1])
  /\ pending # NoRequest => Valid(pending[1])
  /\ captured # NoRequest =>
       Valid(captured.id[1]) /\ captured.flair = FlairOf[AccountAsked(captured.id)]
  /\ completion.state = "set" =>
       /\ Valid(completion.id[1])
       /\ completion.flair = FlairOf[AccountAsked(completion.id)]
  /\ pc = "close" /\ outcome = "value" => completion.state = "set"
  /\ pc = "close" => outcome # "none"
  /\ \A a \in DOMAIN cache : cache[a] = FlairOf[a]
  /\ pc = "pause" => Account \in DOMAIN cache

(***************************************************************************)
(* The document and the file.                                              *)
(***************************************************************************)
Right(k, flair) == flair = OldFlair[k] \/ (Valid(k) /\ flair = FlairOf[AccountOf[k]])

\* A document, in memory or on disk, with right flairs only; what the file lacks
\* are answers; the temporary file is moved only when it is the document.
DocumentsRight ==
  /\ root \in Contents /\ file \in Contents
  /\ \A k \in Keys : Right(k, root[k]) /\ Right(k, file[k])
  /\ \A k \in Keys : root[k] # file[k] => Valid(k) /\ root[k] = FlairOf[AccountOf[k]]
  /\ pc = "move" => tmp = root

Unsaved == {k \in Keys : root[k] # file[k]}

\* The answers that are not in the file are those since the last checkpoint.
UnsavedCounted ==
  /\ pc \in {"write", "writing", "move"} => saving \in {"checkpoint", "final"}
  /\ Cardinality(Unsaved) <=
       IF pc = "down" \/ (pc \in {"write", "writing", "move"} /\ saving = "checkpoint")
       THEN CheckpointEvery ELSE updated % CheckpointEvery
  /\ pc \in {"write", "writing", "move"} /\ saving = "checkpoint" =>
       updated % CheckpointEvery = 0

\* Every entry is written once.
Progress == Cardinality(todo) + updated <= Len(AccountOf)

\* Without --overwrite an entry that has a flair in the file has the same in the
\* document, and one still to do has none.
OldOnesKept ==
  ~overwrite =>
    /\ \A k \in Keys : file[k] # 0 => root[k] = file[k]
    /\ \A k \in todo : file[k] = 0 /\ root[k] = 0

\* The inductive invariant: what is known of the request, and of the data.
RequestInv == EntryChosen /\ PendingIsCurrent /\ AnswersRight
DataInv == DocumentsRight /\ UnsavedCounted /\ Progress /\ OldOnesKept
IndInv == TypeOK /\ RequestInv /\ DataInv
-------------------------------------------------------------------------------
(***************************************************************************)
(* Numbers and finite sets.                                                *)
(***************************************************************************)

\* A set of numbers that holds 0 and with each number the next holds them all:
\* shifting the numbers that are left out down by one would be an injection of
\* a finite set into itself that misses the largest.
LEMMA SetInduction ==
  ASSUME NEW S, 0 \in S, \A n \in Nat : n \in S => n + 1 \in S
  PROVE  \A n \in Nat : n \in S
<1> SUFFICES ASSUME NEW n \in Nat, n \notin S PROVE FALSE
  OBVIOUS
<1> DEFINE T == {m \in 0 .. n : m \notin S}
           f == [m \in T |-> m - 1]
<1>1. IsFiniteSet(T)
  <2>1. IsFiniteSet(0 .. n)
    BY FS_Interval
  <2> QED
    BY <2>1, FS_Subset
<1>2. \A m \in T : m - 1 \in T
  <2> SUFFICES ASSUME NEW m \in 0 .. n, m \notin S PROVE m - 1 \in 0 .. n /\ m - 1 \notin S
    OBVIOUS
  <2>1. m - 1 \in 0 .. n
    OBVIOUS
  <2>2. m - 1 \in Nat /\ (m - 1) + 1 = m
    BY <2>1
  <2> QED
    BY <2>1, <2>2
<1>3. f \in Injection(T, T)
  BY <1>2 DEF Injection, IsInjective
<1>4. f \in Surjection(T, T)
  BY <1>1, <1>3, FS_Injection
<1>5. n \in T
  OBVIOUS
<1>6. PICK m \in T : f[m] = n
  BY <1>4, <1>5 DEF Surjection
<1> QED
  BY <1>6

\* A set of entries has a first one.
LEMMA FirstEntry ==
  ASSUME NEW T \in SUBSET Keys, T # {}
  PROVE  Min(T) \in T
<1> DEFINE S == {n \in Nat : \A m \in 0 .. n : m \notin T}
<1>1. T \subseteq Nat \ {0}
  BY GeneratorAssumption DEF Keys
<1> SUFFICES ASSUME ~\E x \in T : \A y \in T : x <= y PROVE FALSE
  BY DEF Min
<1>2. 0 \in S
  BY <1>1
<1>3. \A n \in Nat : n \in S => n + 1 \in S
  <2> SUFFICES ASSUME NEW n \in Nat, n \in S, n + 1 \in T PROVE FALSE
    OBVIOUS
  <2>1. PICK y \in T : ~(n + 1 <= y)
    OBVIOUS
  <2>2. y \in 0 .. n
    BY <1>1, <2>1
  <2> QED
    BY <2>2
<1>4. \A n \in Nat : n \in S
  <2> HIDE DEF S
  <2> QED
    BY <1>2, <1>3, SetInduction
<1>5. PICK t \in T : TRUE
  OBVIOUS
<1>6. t \in Nat /\ t \in 0 .. t
  BY <1>1
<1> QED
  BY <1>4, <1>5, <1>6

\* Counting modulo the distance of two checkpoints.
LEMMA NextModulo ==
  ASSUME NEW n \in Nat
  PROVE  /\ n % CheckpointEvery \in 0 .. CheckpointEvery - 1
         /\ (n + 1) % CheckpointEvery # 0 =>
              (n + 1) % CheckpointEvery = (n % CheckpointEvery) + 1
<1> DEFINE c == CheckpointEvery
<1>1. c \in Nat \ {0}
  BY GeneratorAssumption
<1> QED
  BY <1>1, SMT

LEMMA KeysFinite == IsFiniteSet(Keys) /\ Cardinality(Keys) = Len(AccountOf)
<1>1. Len(AccountOf) \in Nat /\ Keys = 1 .. Len(AccountOf)
  BY GeneratorAssumption DEF Keys
<1>2. /\ IsFiniteSet(1 .. Len(AccountOf))
      /\ Cardinality(1 .. Len(AccountOf)) =
           IF 1 > Len(AccountOf) THEN 0 ELSE Len(AccountOf) - 1 + 1
  BY <1>1, FS_Interval
<1> QED
  BY <1>1, <1>2
-------------------------------------------------------------------------------
(***************************************************************************)
(* Kinds of steps.                                                         *)
(***************************************************************************)
Saves == {"write", "writing", "move"}

\* What every proof needs of the constants and the types.
LEMMA Constants ==
  /\ CheckpointEvery \in Nat \ {0} /\ MaxAttempts \in Nat \ {0} /\ MaxRuns \in Nat \ {0}
  /\ 0 \in Flairs /\ OldFlair \in Contents
  /\ \A k \in Keys : Valid(k) => FlairOf[AccountOf[k]] \in Flairs
  /\ \A k \in Keys : AccountOf[k] # Invalid => Valid(k)
<1>1. \A k \in Keys : AccountOf[k] \in Accounts \cup {Invalid}
  BY GeneratorAssumption DEF Keys
<1> QED
  BY <1>1, GeneratorAssumption DEF Flairs, Contents, Valid

LEMMA UnsavedFinite ==
  ASSUME NEW f, NEW g
  PROVE  LET S == {k \in Keys : f[k] # g[k]}
         IN  IsFiniteSet(S) /\ Cardinality(S) \in Nat
<1> DEFINE S == {k \in Keys : f[k] # g[k]}
<1>1. IsFiniteSet(S)
  BY KeysFinite, FS_Subset
<1> QED
  BY <1>1, FS_CardinalityType

\* The number of answers that are not in the file, and of entries to do.
LEMMA CountsAreNumbers ==
  ASSUME TypeOK
  PROVE  /\ IsFiniteSet(Unsaved) /\ Cardinality(Unsaved) \in Nat
         /\ IsFiniteSet(todo) /\ Cardinality(todo) \in Nat
<1>1. IsFiniteSet(todo)
  BY KeysFinite, FS_Subset DEF TypeOK
<1> QED
  BY <1>1, UnsavedFinite, FS_CardinalityType DEF Unsaved

\* A step that writes neither the document nor the file keeps what is known of
\* them, unless it begins a save or a run.
LEMMA DataKept ==
  ASSUME TypeOK, DataInv,
         UNCHANGED << root, file, updated, overwrite, saving >>, todo' \subseteq todo,
         \/ pc' = "down"
         \/ pc' \in Saves /\ pc \in Saves
         \/ pc' \notin Saves \cup {"down"} /\ pc \notin Saves \cup {"down"},
         pc' = "move" => tmp' = root
  PROVE  DataInv'
<1>1. DocumentsRight'
  BY DEF DataInv, DocumentsRight
<1>2. UnsavedCounted'
  <2>1. Cardinality(Unsaved') = Cardinality(Unsaved)
    BY DEF Unsaved
  <2>2. Cardinality(Unsaved) \in Nat
    BY CountsAreNumbers
  <2>3. updated % CheckpointEvery \in 0 .. CheckpointEvery - 1
    BY NextModulo DEF TypeOK
  <2>4. Cardinality(Unsaved) <= CheckpointEvery
    BY <2>2, <2>3, Constants DEF DataInv, UnsavedCounted
  <2> QED
    BY <2>1, <2>4 DEF DataInv, UnsavedCounted, Saves
<1>3. Progress'
  <2>1. Cardinality(todo') <= Cardinality(todo) /\ Cardinality(todo') \in Nat
    BY CountsAreNumbers, FS_Subset, FS_CardinalityType
  <2>2. Len(AccountOf) \in Nat /\ updated \in Nat
    BY GeneratorAssumption DEF TypeOK
  <2> QED
    BY <2>1, <2>2, CountsAreNumbers DEF DataInv, Progress
<1>4. OldOnesKept'
  BY DEF DataInv, OldOnesKept
<1> QED
  BY <1>1, <1>2, <1>3, <1>4 DEF DataInv

\* A step that is not about a request, or that ends the run.
LEMMA RequestKept ==
  ASSUME TypeOK, RequestInv,
         UNCHANGED << clientVars, outstanding, cache >>, todo' \subseteq todo,
         \/ pc' = "down"
         \/ /\ pc \notin {"await", "close", "down"}
            /\ pc' \notin {"await", "close", "pause", "backoff"}
            /\ pc' = "query" => todo' # {}
  PROVE  RequestInv'
<1>1. EntryChosen'
  BY DEF RequestInv, EntryChosen
<1>2. PendingIsCurrent'
  BY DEF RequestInv, PendingIsCurrent, clientVars
<1>3. AnswersRight'
  BY DEF RequestInv, AnswersRight, clientVars, AccountAsked
<1> QED
  BY <1>1, <1>2, <1>3 DEF RequestInv

\* The entry the loop works on.
LEMMA EntryIsValid ==
  ASSUME TypeOK, EntryChosen, todo # {}
  PROVE  Entry \in todo /\ Entry \in Keys /\ Valid(Entry) /\ Account \in Accounts
BY FirstEntry DEF TypeOK, EntryChosen, Entry, Account, Valid
-------------------------------------------------------------------------------
(***************************************************************************)
(* Init and Start.                                                         *)
(***************************************************************************)
LEMMA InitIndInv == Init => IndInv
<1> SUFFICES ASSUME Init PROVE IndInv
  OBVIOUS
<1>1. DOMAIN << >> = {}
  OBVIOUS
<1>2. TypeOK
  <2>1. /\ 1 \in 1 .. MaxAttempts /\ 0 \in 0 .. MaxCmRetries /\ 0 \in 0 .. MaxRuns
        /\ 0 \in 0 .. Len(AccountOf)
    BY Constants, GeneratorAssumption
  <2>2. completion \in [id : Requests \cup {NoRequest}, state : {"open", "failed", "set"},
                        flair : Flairs]
    BY Constants DEF Init
  <2>3. OldFlair \in Contents
    BY Constants
  <2> QED
    BY <1>1, <2>1, <2>2, <2>3 DEF Init, TypeOK
<1>3. RequestInv
  BY <1>1 DEF Init, RequestInv, EntryChosen, PendingIsCurrent, AnswersRight
<1>4. Unsaved = {} /\ todo = {} /\ Cardinality({}) = 0
  BY FS_EmptySet DEF Init, Unsaved
<1>5. DocumentsRight
  BY Constants DEF Init, DocumentsRight, Right
<1>6. UnsavedCounted
  BY <1>4, Constants DEF Init, UnsavedCounted
<1>7. Progress
  BY <1>4, GeneratorAssumption DEF Init, Progress
<1>8. OldOnesKept
  BY DEF Init, OldOnesKept
<1> QED
  BY <1>2, <1>3, <1>5, <1>6, <1>7, <1>8 DEF IndInv, DataInv

\* A run begins with the file it finds.
LEMMA StartKeepsInv ==
  ASSUME IndInv, NEW all \in BOOLEAN, Start(all)
  PROVE  IndInv'
<1>1. DOMAIN << >> = {} /\ 1 \in 1 .. MaxAttempts /\ 0 \in 0 .. MaxCmRetries
  BY Constants, GeneratorAssumption
<1>2. todo' = {k \in Keys : AccountOf[k] # Invalid /\ (all \/ file[k] = 0)}
  BY DEF Start, ReadEntries
<1>3. /\ pc' \in {"down", "connect"} /\ exit' \in {"ok", "none"}
      /\ attempt' = 1 /\ outcome' = "none" /\ saving' = "none"
      /\ root' = file /\ cache' = << >> /\ updated' = 0 /\ overwrite' = all
      /\ cancelled' = FALSE /\ tmp' = NoFile /\ file' = file
      /\ gcReady' = "pending" /\ pending' = NoRequest /\ captured' = NoRequest
      /\ completion' = [id |-> NoRequest, state |-> "open", flair |-> 0]
      /\ session' = "connecting" /\ token' = FALSE /\ retries' = 0 /\ outstanding' = {}
  BY DEF Start
<1>4. runs' \in 0 .. MaxRuns
  BY Constants DEF Start, IndInv, TypeOK
<1>5. TypeOK'
  <2>1. root' \in Contents /\ file' \in Contents
    BY <1>3 DEF IndInv, DataInv, DocumentsRight
  <2>2. updated' \in 0 .. Len(AccountOf)
    BY <1>3, GeneratorAssumption
  <2>3. todo' \subseteq Keys
    BY <1>2
  <2>4. completion' \in [id : Requests \cup {NoRequest}, state : {"open", "failed", "set"},
                         flair : Flairs]
    BY <1>3, Constants
  <2> QED
    BY <1>1, <1>3, <1>4, <2>1, <2>2, <2>3, <2>4 DEF TypeOK
<1>6. RequestInv'
  <2>1. \A k \in todo' : Valid(k)
    BY <1>2, Constants
  <2> QED
    BY <1>1, <1>3, <2>1 DEF RequestInv, EntryChosen, PendingIsCurrent, AnswersRight
<1>7. Unsaved' = {} /\ Cardinality({}) = 0
  BY <1>3, FS_EmptySet DEF Unsaved
<1>8. DocumentsRight'
  BY <1>3 DEF IndInv, DataInv, DocumentsRight
<1>9. UnsavedCounted'
  <2>1. 0 % CheckpointEvery \in Nat
    BY NextModulo
  <2> QED
    BY <1>3, <1>7, <2>1, Constants DEF UnsavedCounted
<1>10. Progress'
  <2>1. /\ Cardinality(todo') <= Len(AccountOf) /\ Cardinality(todo') \in Nat
        /\ Len(AccountOf) \in Nat
    BY <1>2, KeysFinite, FS_Subset, FS_CardinalityType, GeneratorAssumption
  <2> QED
    BY <1>3, <2>1 DEF Progress
<1>11. OldOnesKept'
  BY <1>2, <1>3 DEF OldOnesKept
<1> QED
  BY <1>5, <1>6, <1>8, <1>9, <1>10, <1>11 DEF IndInv, DataInv
-------------------------------------------------------------------------------
(***************************************************************************)
(* The main task.                                                          *)
(***************************************************************************)
\* Ending the run, whatever it was doing.
LEMMA ExitKeepsInv ==
  ASSUME IndInv, NEW code \in {"killed", "ok", "error", "cancelled"}, Exit(code),
         UNCHANGED << cancelled, dataVars, file, clientVars, steamVars >>,
         tmp' = tmp \/ tmp' = NoFile
  PROVE  IndInv'
<1>1. /\ pc' = "down" /\ exit' = code
      /\ UNCHANGED << todo, attempt, outcome, saving, runs >>
      /\ UNCHANGED << root, file, updated, overwrite, cache, outstanding >>
  BY DEF Exit, dataVars, steamVars
<1>2. TypeOK'
  BY <1>1 DEF IndInv, TypeOK, dataVars, clientVars, steamVars
<1> QED
  BY <1>1, <1>2, DataKept, RequestKept DEF IndInv

\* Going on to another place that has no request.
LEMMA GotoKeepsInv ==
  ASSUME IndInv, NEW label \in {"next", "query", "writing", "move"}, Goto(label),
         UNCHANGED << cancelled, dataVars, file, clientVars, steamVars >>,
         tmp' \in Contents \cup {Torn, NoFile},
         label = "move" => tmp' = root,
         \/ label \in Saves /\ pc \in Saves
         \/ label \notin Saves /\ pc \in {"connect", "next"},
         label = "query" => todo # {}
  PROVE  IndInv'
<1>1. /\ pc' = label /\ pc \notin {"await", "close", "down"}
      /\ UNCHANGED << todo, attempt, outcome, saving, exit, runs >>
      /\ UNCHANGED << root, file, updated, overwrite, cache, outstanding >>
  BY DEF Goto, dataVars, steamVars, Saves
<1>2. TypeOK'
  BY <1>1 DEF IndInv, TypeOK, dataVars, clientVars, steamVars
<1>3. RequestInv'
  BY <1>1, RequestKept DEF IndInv
<1>4. DataInv'
  BY <1>1, DataKept DEF IndInv, Saves
<1> QED
  BY <1>2, <1>3, <1>4 DEF IndInv

\* An answer is written for its entry, and a checkpoint begun when it is due.
LEMMA RecordKeepsInv ==
  ASSUME IndInv, todo # {}, Account \in DOMAIN cache, pc \in {"next", "pause"}, Record,
         UNCHANGED << cancelled, diskVars, clientVars, steamVars >>
  PROVE  IndInv'
<1> DEFINE e == Entry
           flair == cache[Account]
<1>1. /\ root' = [root EXCEPT ![e] = flair] /\ updated' = updated + 1
      /\ todo' = todo \ {e} /\ file' = file /\ tmp' = tmp
      /\ UNCHANGED << attempt, outcome, exit, runs, cache, overwrite, outstanding >>
  BY DEF Record, diskVars, steamVars
<1>2. \/ CheckpointDue /\ pc' = "write" /\ saving' = "checkpoint"
      \/ ~CheckpointDue /\ pc' = "next" /\ saving' = saving
  BY DEF Record
<1>3. e \in todo /\ e \in Keys /\ Valid(e)
  BY EntryIsValid DEF IndInv, RequestInv
<1>4. flair = FlairOf[AccountOf[e]]
  BY DEF IndInv, RequestInv, AnswersRight, Account
<1> HIDE DEF e, flair
<1>5. flair \in Flairs
  BY <1>3, <1>4, Constants
<1>6. updated \in Nat /\ Len(AccountOf) \in Nat
  BY GeneratorAssumption DEF IndInv, TypeOK
<1>7. Progress' /\ updated' \in 0 .. Len(AccountOf)
  <2>1. Cardinality(todo') = Cardinality(todo) - 1 /\ Cardinality(todo) \in Nat
        /\ Cardinality(todo') \in Nat
    BY <1>1, <1>3, CountsAreNumbers, FS_RemoveElement, FS_CardinalityType DEF IndInv
  <2> QED
    BY <1>1, <1>6, <2>1 DEF IndInv, DataInv, Progress
<1>8. root' \in Contents
  BY <1>1, <1>5 DEF IndInv, DataInv, DocumentsRight, Contents
<1>9. TypeOK'
  BY <1>1, <1>2, <1>7, <1>8 DEF IndInv, TypeOK, diskVars, clientVars, steamVars
<1>10. RequestInv'
  BY <1>1, <1>2, RequestKept DEF IndInv
<1>11. DocumentsRight'
  <2>1. \A k \in Keys : root'[k] = IF k = e THEN flair ELSE root[k]
    BY <1>1 DEF IndInv, DataInv, DocumentsRight, Contents
  <2>2. Right(e, flair)
    BY <1>3, <1>4 DEF Right
  <2>3. ASSUME NEW k \in Keys, root'[k] # file'[k]
        PROVE  Valid(k) /\ root'[k] = FlairOf[AccountOf[k]]
    <3>1. CASE k = e
      BY <3>1, <1>3, <1>4, <2>1
    <3>2. CASE k # e
      <4>1. root'[k] = root[k] /\ root[k] # file[k]
        BY <3>2, <2>1, <2>3, <1>1
      <4> QED
        BY <4>1 DEF IndInv, DataInv, DocumentsRight
    <3> QED
      BY <3>1, <3>2
  <2>4. \A k \in Keys : Right(k, root'[k]) /\ Right(k, file'[k])
    BY <1>1, <2>1, <2>2 DEF IndInv, DataInv, DocumentsRight
  <2>5. (pc' = "move" => tmp' = root') /\ file' \in Contents
    BY <1>1, <1>2 DEF IndInv, DataInv, DocumentsRight
  <2> QED
    BY <1>8, <2>3, <2>4, <2>5 DEF DocumentsRight
<1>12. UnsavedCounted'
  <2>1. Unsaved' \subseteq Unsaved \cup {e}
    BY <1>1 DEF Unsaved, IndInv, DataInv, DocumentsRight, Contents
  <2>2. Cardinality(Unsaved') <= Cardinality(Unsaved) + 1
    <3>1. /\ IsFiniteSet(Unsaved) /\ Cardinality(Unsaved) \in Nat
          /\ IsFiniteSet(Unsaved') /\ Cardinality(Unsaved') \in Nat
      BY <1>9, CountsAreNumbers, UnsavedFinite DEF IndInv, Unsaved
    <3>2. /\ IsFiniteSet(Unsaved \cup {e})
          /\ Cardinality(Unsaved \cup {e}) =
               IF e \in Unsaved THEN Cardinality(Unsaved) ELSE Cardinality(Unsaved) + 1
      BY <3>1, FS_AddElement
    <3>3. Cardinality(Unsaved') <= Cardinality(Unsaved \cup {e})
      BY <2>1, <3>2, FS_Subset
    <3> QED
      BY <3>1, <3>2, <3>3
  <2>3. Cardinality(Unsaved) <= updated % CheckpointEvery
    BY DEF IndInv, DataInv, UnsavedCounted
  <2>4. /\ updated % CheckpointEvery \in 0 .. CheckpointEvery - 1
        /\ (updated + 1) % CheckpointEvery # 0 =>
             (updated + 1) % CheckpointEvery = (updated % CheckpointEvery) + 1
    BY <1>6, NextModulo
  <2>5. Cardinality(Unsaved) \in Nat /\ Cardinality(Unsaved') \in Nat /\ CheckpointEvery \in Nat
    BY <1>9, CountsAreNumbers, UnsavedFinite, Constants DEF IndInv, Unsaved
  <2>6. CASE CheckpointDue
    BY <1>1, <1>2, <2>2, <2>3, <2>4, <2>5, <2>6 DEF UnsavedCounted, CheckpointDue
  <2>7. CASE ~CheckpointDue
    BY <1>1, <1>2, <2>2, <2>3, <2>4, <2>5, <2>7 DEF UnsavedCounted, CheckpointDue
  <2> QED
    BY <2>6, <2>7
<1>13. OldOnesKept'
  BY <1>1, <1>3 DEF IndInv, DataInv, OldOnesKept, DocumentsRight, Contents
<1> QED
  BY <1>7, <1>9, <1>10, <1>11, <1>12, <1>13 DEF IndInv, DataInv

LEMMA ConnectKeepsInv == ASSUME IndInv, ConnectAsync PROVE IndInv'
<1>1. UNCHANGED << cancelled, dataVars, diskVars, clientVars, steamVars >>
  BY DEF ConnectAsync
<1>2. tmp' = tmp /\ file' = file /\ tmp' \in Contents \cup {Torn, NoFile}
  BY <1>1 DEF diskVars, IndInv, TypeOK
<1>3. CASE gcReady = "ready" /\ Goto("next")
  <2>1. pc = "connect"
    BY DEF ConnectAsync
  <2> QED
    BY <1>1, <1>2, <1>3, <2>1, GotoKeepsInv DEF Saves
<1>4. CASE Exit("error")
  BY <1>1, <1>2, <1>4, ExitKeepsInv
<1>5. CASE Exit("cancelled")
  BY <1>1, <1>2, <1>5, ExitKeepsInv
<1> QED
  BY <1>3, <1>4, <1>5 DEF ConnectAsync

LEMMA NextEntryKeepsInv == ASSUME IndInv, NextEntry PROVE IndInv'
<1>1. /\ pc = "next" /\ UNCHANGED << cancelled, diskVars, clientVars, steamVars >>
      /\ tmp' = tmp /\ file' = file /\ tmp' \in Contents \cup {Torn, NoFile}
  BY DEF NextEntry, diskVars, IndInv, TypeOK
<1>2. CASE Exit("cancelled") /\ UNCHANGED dataVars
  BY <1>1, <1>2, ExitKeepsInv
<1>3. CASE todo # {} /\ Account \in DOMAIN cache /\ Record
  BY <1>1, <1>3, RecordKeepsInv
<1>4. CASE todo # {} /\ Goto("query") /\ UNCHANGED dataVars
  BY <1>1, <1>4, GotoKeepsInv DEF Saves
<1>5. CASE FinalSave
  <2>1. /\ pc' = "write" /\ saving' = "final"
        /\ UNCHANGED << todo, attempt, outcome, exit, runs >>
        /\ UNCHANGED << root, cache, updated, overwrite, outstanding >>
    BY <1>1, <1>5 DEF FinalSave, dataVars, steamVars
  <2>2. TypeOK'
    BY <1>1, <2>1 DEF IndInv, TypeOK, clientVars, steamVars
  <2>3. RequestInv'
    BY <1>1, <2>1, RequestKept DEF IndInv
  <2>4. UnsavedCounted'
    BY <1>1, <2>1 DEF IndInv, DataInv, UnsavedCounted, Unsaved
  <2>5. DocumentsRight' /\ Progress' /\ OldOnesKept'
    BY <1>1, <2>1 DEF IndInv, DataInv, DocumentsRight, Progress, OldOnesKept
  <2> QED
    BY <2>2, <2>3, <2>4, <2>5 DEF IndInv, DataInv
<1> QED
  BY <1>2, <1>3, <1>4, <1>5 DEF NextEntry

\* A request is sent for the entry the loop works on.
LEMMA SendRequestKeepsInv == ASSUME IndInv, SendRequest PROVE IndInv'
<1>1. /\ pc = "query" /\ UNCHANGED << cancelled, dataVars, diskVars >>
      /\ tmp' = tmp /\ file' = file
  BY DEF SendRequest, diskVars
<1>2. CASE Exit("error") /\ UNCHANGED << clientVars, steamVars >>
  BY <1>1, <1>2, ExitKeepsInv
<1>3. CASE /\ pending' = Current
           /\ completion' = [id |-> Current, state |-> "open", flair |-> 0]
           /\ outstanding' = outstanding \cup {r \in {Current} : session = "gc"}
           /\ Goto("await")
           /\ UNCHANGED << gcReady, captured, session, token, retries >>
  <2>1. /\ pc' = "await" /\ UNCHANGED << todo, attempt, outcome, saving, exit, runs >>
        /\ UNCHANGED << root, cache, updated, overwrite >>
    BY <1>1, <1>3 DEF Goto, dataVars
  <2>2. Entry \in Keys /\ Valid(Entry) /\ todo # {}
    BY <1>1, EntryIsValid DEF IndInv, RequestInv, EntryChosen
  <2>3. /\ Current \in Requests /\ Current[1] = Entry /\ Current' = Current
        /\ Account' = Account
    BY <2>1, <2>2 DEF Current, Requests, IndInv, TypeOK, Entry, Account
  <2>4. TypeOK'
    <3>1. completion' \in [id : Requests \cup {NoRequest}, state : {"open", "failed", "set"},
                           flair : Flairs]
      BY <1>3, <2>3, Constants
    <3>2. outstanding' \subseteq Requests /\ pending' \in Requests
      BY <1>3, <2>3 DEF IndInv, TypeOK
    <3> QED
      BY <1>1, <1>3, <2>1, <3>1, <3>2 DEF IndInv, TypeOK, diskVars
  <2>5. EntryChosen'
    BY <2>1, <2>2 DEF IndInv, RequestInv, EntryChosen
  <2>6. PendingIsCurrent'
    BY <1>3, <2>1, <2>3 DEF PendingIsCurrent
  <2>7. AnswersRight'
    BY <1>3, <2>1, <2>2, <2>3 DEF IndInv, RequestInv, AnswersRight, AccountAsked
  <2>8. DataInv'
    BY <1>1, <2>1, DataKept DEF IndInv, Saves
  <2> QED
    BY <2>4, <2>5, <2>6, <2>7, <2>8 DEF IndInv, RequestInv
<1> QED
  BY <1>2, <1>3 DEF SendRequest

\* The wait ends.
LEMMA AwaitKeepsInv ==
  ASSUME IndInv, NEW how \in {"value", "failed", "cancelled", "timeout"}, AwaitProfile(how)
  PROVE  IndInv'
<1>1. /\ pc = "await" /\ outcome' = how /\ pc' = "close"
      /\ how = "value" => completion.state = "set"
      /\ UNCHANGED << todo, attempt, saving, exit, runs, cancelled >>
      /\ UNCHANGED << root, cache, updated, overwrite, file, tmp >>
      /\ UNCHANGED << gcReady, pending, completion, captured >>
      /\ UNCHANGED << session, token, retries, outstanding >>
  BY DEF AwaitProfile, dataVars, diskVars, clientVars, steamVars
<1>2. TypeOK'
  BY <1>1 DEF IndInv, TypeOK
<1>3. Current' = Current
  BY <1>1 DEF Current, Entry
<1>4. EntryChosen' /\ PendingIsCurrent'
  BY <1>1, <1>3 DEF IndInv, RequestInv, EntryChosen, PendingIsCurrent
<1>5. AnswersRight'
  BY <1>1 DEF IndInv, RequestInv, AnswersRight, AccountAsked
<1>6. DataInv'
  BY <1>1, DataKept DEF IndInv, Saves
<1> QED
  BY <1>2, <1>4, <1>5, <1>6 DEF IndInv, RequestInv

\* The request is closed: its answer is stored under the account that was asked
\* for, a timeout leads to another attempt or to the next entry.
LEMMA CloseRequestKeepsInv == ASSUME IndInv, CloseRequest PROVE IndInv'
<1>1. /\ pc = "close" /\ pending' = NoRequest
      /\ UNCHANGED << outcome, saving, runs, root, updated, overwrite, cancelled >>
      /\ UNCHANGED << file, tmp, gcReady, completion, captured >>
      /\ UNCHANGED << session, token, retries, outstanding >>
  BY DEF CloseRequest, ReleasePending, diskVars, steamVars
<1>2. todo # {} /\ completion.id = Current
  BY <1>1 DEF IndInv, RequestInv, EntryChosen, PendingIsCurrent
<1>3. Entry \in todo /\ Entry \in Keys /\ Valid(Entry) /\ Account \in Accounts
  BY <1>2, EntryIsValid DEF IndInv, RequestInv
<1>4. CASE /\ outcome = "value"
           /\ cache' = [a \in DOMAIN cache \cup {Account} |->
                          IF a = Account THEN completion.flair ELSE cache[a]]
           /\ pc' = "pause" /\ attempt' = 1
           /\ UNCHANGED << todo, exit >>
  <2>1. completion.flair = FlairOf[Account]
    <3>1. completion.state = "set" /\ Current[1] = Entry
      BY <1>1, <1>4 DEF IndInv, RequestInv, AnswersRight, Current
    <3> QED
      BY <1>1, <1>2, <3>1 DEF IndInv, RequestInv, AnswersRight, AccountAsked, Account
  <2>2. /\ DOMAIN cache' = DOMAIN cache \cup {Account}
        /\ \A a \in DOMAIN cache' : cache'[a] = FlairOf[a]
    BY <1>4, <2>1 DEF IndInv, RequestInv, AnswersRight
  <2>3. Account' = Account
    BY <1>4 DEF Account, Entry
  <2>4. TypeOK'
    <3>1. \A a \in DOMAIN cache' : cache'[a] \in Flairs
      BY <1>4, <2>1, <1>3, Constants DEF IndInv, TypeOK, Account, Valid
    <3>2. DOMAIN cache' \subseteq Accounts /\ attempt' \in 1 .. MaxAttempts
      BY <1>3, <1>4, <2>2, Constants DEF IndInv, TypeOK
    <3> QED
      BY <1>1, <1>4, <3>1, <3>2 DEF IndInv, TypeOK
  <2>5. EntryChosen' /\ PendingIsCurrent'
    BY <1>1, <1>2, <1>4 DEF IndInv, RequestInv, EntryChosen, PendingIsCurrent
  <2>6. AnswersRight'
    BY <1>1, <1>4, <2>2, <2>3 DEF IndInv, RequestInv, AnswersRight, AccountAsked
  <2>7. DataInv'
    BY <1>1, <1>4, DataKept DEF IndInv, Saves
  <2> QED
    BY <2>4, <2>5, <2>6, <2>7 DEF IndInv, RequestInv
<1>5. CASE outcome = "timeout" /\ TimedOut /\ UNCHANGED << exit, cache >>
  <2>1. /\ \/ pc' = "backoff" /\ todo' = todo /\ attempt' = attempt /\ attempt < MaxAttempts
           \/ pc' = "next" /\ todo' = todo \ {Entry} /\ attempt' = 1
        /\ exit' = exit /\ cache' = cache
    BY <1>5 DEF TimedOut
  <2>2. attempt' \in 1 .. MaxAttempts
    BY <2>1, Constants DEF IndInv, TypeOK
  <2>3. TypeOK'
    BY <1>1, <2>1, <2>2 DEF IndInv, TypeOK
  <2>4. EntryChosen' /\ PendingIsCurrent'
    BY <1>1, <1>2, <2>1 DEF IndInv, RequestInv, EntryChosen, PendingIsCurrent
  <2>5. AnswersRight'
    BY <1>1, <2>1 DEF IndInv, RequestInv, AnswersRight, AccountAsked
  <2>6. DataInv'
    BY <1>1, <2>1, DataKept DEF IndInv, Saves
  <2> QED
    BY <2>3, <2>4, <2>5, <2>6 DEF IndInv, RequestInv
<1>6. CASE /\ pc' = "down" /\ exit' = (IF outcome = "failed" THEN "error" ELSE "cancelled")
           /\ UNCHANGED << todo, attempt, cache >>
  <2>1. TypeOK'
    BY <1>1, <1>6 DEF IndInv, TypeOK
  <2>2. EntryChosen' /\ PendingIsCurrent'
    BY <1>1, <1>6 DEF IndInv, RequestInv, EntryChosen, PendingIsCurrent
  <2>3. AnswersRight'
    BY <1>1, <1>6 DEF IndInv, RequestInv, AnswersRight, AccountAsked
  <2>4. DataInv'
    BY <1>1, <1>6, DataKept DEF IndInv, Saves
  <2> QED
    BY <2>1, <2>2, <2>3, <2>4 DEF IndInv, RequestInv
<1> QED
  BY <1>4, <1>5, <1>6 DEF CloseRequest

\* The two pauses.
LEMMA PausesKeepInv == ASSUME IndInv, Backoff \/ Pause PROVE IndInv'
<1>1. /\ UNCHANGED << cancelled, diskVars, clientVars, steamVars >>
      /\ tmp' = tmp /\ file' = file /\ todo # {}
  BY DEF Backoff, Pause, diskVars, IndInv, RequestInv, EntryChosen
<1>2. CASE Exit("cancelled") /\ UNCHANGED dataVars
  BY <1>1, <1>2, ExitKeepsInv
<1>3. CASE pc = "pause" /\ Record
  <2>1. Account \in DOMAIN cache
    BY <1>3 DEF IndInv, RequestInv, AnswersRight
  <2> QED
    BY <1>1, <1>3, <2>1, RecordKeepsInv
<1>4. CASE /\ pc = "backoff" /\ pc' = "query" /\ attempt' = attempt + 1
           /\ UNCHANGED << todo, outcome, saving, exit, runs >>
           /\ UNCHANGED dataVars
  <2>1. attempt' \in 1 .. MaxAttempts
    BY <1>4, Constants DEF IndInv, TypeOK, RequestInv, EntryChosen
  <2>2. UNCHANGED << root, cache, updated, overwrite, outstanding >>
    BY <1>1, <1>4 DEF dataVars, steamVars
  <2>3. TypeOK'
    BY <1>1, <1>4, <2>1, <2>2 DEF IndInv, TypeOK, clientVars, steamVars
  <2>4. RequestInv'
    BY <1>1, <1>4, <2>2, RequestKept DEF IndInv
  <2>5. DataInv'
    BY <1>1, <1>4, <2>2, DataKept DEF IndInv, Saves
  <2> QED
    BY <2>3, <2>4, <2>5 DEF IndInv
<1> QED
  BY <1>2, <1>3, <1>4 DEF Backoff, Pause

\* Writing the temporary file, and giving up.
LEMMA WritingKeepsInv ==
  ASSUME IndInv, WriteTemporary \/ TemporaryWritten \/ SaveFails
  PROVE  IndInv'
<1>1. /\ cancelled' = cancelled /\ file' = file
      /\ UNCHANGED dataVars /\ UNCHANGED clientVars /\ UNCHANGED steamVars
  BY DEF WriteTemporary, TemporaryWritten, SaveFails
<1>2. CASE WriteTemporary
  <2>1. pc = "write" /\ Goto("writing") /\ tmp' \in Contents \cup {Torn, NoFile}
    BY <1>2 DEF WriteTemporary
  <2>2. "writing" \in Saves /\ pc \in Saves
    BY <2>1 DEF Saves
  <2> QED
    BY <1>1, <2>1, <2>2, GotoKeepsInv
<1>3. CASE TemporaryWritten
  <2>1. /\ pc = "writing" /\ Goto("move") /\ tmp' = root
        /\ tmp' \in Contents \cup {Torn, NoFile}
    BY <1>3 DEF TemporaryWritten, IndInv, TypeOK
  <2>2. "move" \in Saves /\ pc \in Saves
    BY <2>1 DEF Saves
  <2> QED
    BY <1>1, <2>1, <2>2, GotoKeepsInv
<1>4. CASE SaveFails
  <2>1. tmp' = NoFile /\ (Exit("cancelled") \/ Exit("error"))
    BY <1>4 DEF SaveFails
  <2> QED
    BY <1>1, <2>1, ExitKeepsInv
<1> QED
  BY <1>2, <1>3, <1>4

\* The document takes the place of the file.
LEMMA MoveOverKeepsInv == ASSUME IndInv, MoveOver PROVE IndInv'
<1>1. /\ pc = "move" /\ file' = root /\ tmp' = NoFile
      /\ UNCHANGED << cancelled, dataVars, clientVars, steamVars >>
      /\ UNCHANGED << root, cache, updated, overwrite, outstanding >>
  BY DEF MoveOver, dataVars, steamVars, IndInv, DataInv, DocumentsRight
<1>2. /\ pc' \in {"down", "next"} /\ exit' \in {"ok", exit}
      /\ UNCHANGED << todo, attempt, outcome, saving, runs >>
  BY DEF MoveOver, Exit, Goto
<1>3. TypeOK'
  BY <1>1, <1>2 DEF IndInv, TypeOK, clientVars, steamVars
<1>4. RequestInv'
  BY <1>1, <1>2, RequestKept DEF IndInv
<1>5. DocumentsRight'
  BY <1>1, <1>2 DEF IndInv, DataInv, DocumentsRight
<1>6. UnsavedCounted'
  <2>1. Unsaved' = {} /\ Cardinality({}) = 0
    BY <1>1, FS_EmptySet DEF Unsaved
  <2>2. updated % CheckpointEvery \in Nat
    BY NextModulo DEF IndInv, TypeOK
  <2> QED
    BY <1>1, <1>2, <2>1, <2>2, Constants DEF UnsavedCounted
<1>7. Progress' /\ OldOnesKept'
  BY <1>1, <1>2 DEF IndInv, DataInv, Progress, OldOnesKept
<1> QED
  BY <1>3, <1>4, <1>5, <1>6, <1>7 DEF IndInv, DataInv

LEMMA MainTaskKeepsInv == ASSUME IndInv, MainTask PROVE IndInv'
BY ConnectKeepsInv, NextEntryKeepsInv, SendRequestKeepsInv, AwaitKeepsInv, CloseRequestKeepsInv,
   PausesKeepInv, WritingKeepsInv, MoveOverKeepsInv DEF MainTask
-------------------------------------------------------------------------------
(***************************************************************************)
(* The callback pump.                                                      *)
(***************************************************************************)
\* What is enough of a handler: it leaves the task and the data alone, and sets
\* the completion to a right answer only.
LEMMA HandlerKeepsInv ==
  ASSUME IndInv, Handled, UNCHANGED pending,
         gcReady' \in {"pending", "ready", "failed"},
         session' \in {"connecting", "authorizing", "loggingOn", "closing", "hello", "gc", "down"},
         token' \in BOOLEAN, retries' \in 0 .. MaxCmRetries, outstanding' \subseteq outstanding,
         \/ captured' = NoRequest
         \/ captured' = captured
         \/ /\ captured' \in [id : Requests, flair : Flairs]
            /\ Valid(captured'.id[1]) /\ captured'.flair = FlairOf[AccountAsked(captured'.id)],
         \/ completion' = completion
         \/ completion.state # "set" /\ completion' = [completion EXCEPT !.state = "failed"]
         \/ /\ captured # NoRequest /\ completion.id = captured.id
            /\ completion' = [completion EXCEPT !.state = "set", !.flair = captured.flair]
  PROVE  IndInv'
<1>1. /\ UNCHANGED << pc, todo, attempt, outcome, saving, exit, runs, cancelled >>
      /\ UNCHANGED << root, cache, updated, overwrite, file, tmp >>
  BY DEF Handled, taskVars, dataVars, diskVars
<1>2. captured # NoRequest =>
        /\ captured \in [id : Requests, flair : Flairs] /\ Valid(captured.id[1])
        /\ captured.flair = FlairOf[AccountAsked(captured.id)]
  BY DEF IndInv, TypeOK, RequestInv, AnswersRight
<1>3. completion \in [id : Requests \cup {NoRequest}, state : {"open", "failed", "set"},
                      flair : Flairs]
  BY DEF IndInv, TypeOK
<1>4. /\ completion' \in [id : Requests \cup {NoRequest}, state : {"open", "failed", "set"},
                          flair : Flairs]
      /\ completion'.id = completion.id
      /\ completion'.state = "set" =>
           \/ completion' = completion
           \/ /\ Valid(completion'.id[1])
              /\ completion'.flair = FlairOf[AccountAsked(completion'.id)]
      /\ completion.state = "set" => completion'.state = "set"
  BY <1>2, <1>3
<1>5. captured' \in [id : Requests, flair : Flairs] \cup {NoRequest}
  BY DEF IndInv, TypeOK
<1>6. TypeOK'
  BY <1>1, <1>4, <1>5 DEF IndInv, TypeOK
<1>7. Current' = Current /\ Account' = Account
  BY <1>1 DEF Current, Entry, Account
<1>8. EntryChosen'
  BY <1>1 DEF IndInv, RequestInv, EntryChosen
<1>9. PendingIsCurrent'
  BY <1>1, <1>4, <1>7 DEF IndInv, RequestInv, PendingIsCurrent
<1>10. AnswersRight'
  <2>1. completion'.state = "set" =>
          Valid(completion'.id[1]) /\ completion'.flair = FlairOf[AccountAsked(completion'.id)]
    BY <1>4 DEF IndInv, RequestInv, AnswersRight
  <2>2. captured' # NoRequest =>
          Valid(captured'.id[1]) /\ captured'.flair = FlairOf[AccountAsked(captured'.id)]
    BY <1>2
  <2>3. /\ \A id \in outstanding' : Valid(id[1])
        /\ pending' # NoRequest => Valid(pending'[1])
    BY DEF IndInv, RequestInv, AnswersRight
  <2>4. /\ pc' = "close" /\ outcome' = "value" => completion'.state = "set"
        /\ pc' = "close" => outcome' # "none"
        /\ \A a \in DOMAIN cache' : cache'[a] = FlairOf[a]
        /\ pc' = "pause" => Account' \in DOMAIN cache'
    BY <1>1, <1>4, <1>7 DEF IndInv, RequestInv, AnswersRight
  <2> QED
    BY <2>1, <2>2, <2>3, <2>4 DEF AnswersRight, AccountAsked
<1>11. DocumentsRight' /\ UnsavedCounted'
  BY <1>1 DEF IndInv, DataInv, DocumentsRight, UnsavedCounted, Unsaved
<1>12. Progress' /\ OldOnesKept'
  BY <1>1 DEF IndInv, DataInv, Progress, OldOnesKept
<1> QED
  BY <1>6, <1>8, <1>9, <1>10, <1>11, <1>12 DEF IndInv, RequestInv, DataInv

\* The types of what a handler that leaves them alone hands on.
LEMMA SteamTypes ==
  ASSUME IndInv
  PROVE  /\ gcReady \in {"pending", "ready", "failed"}
         /\ session \in {"connecting", "authorizing", "loggingOn", "closing", "hello", "gc", "down"}
         /\ token \in BOOLEAN /\ retries \in 0 .. MaxCmRetries /\ MaxCmRetries \in Nat
BY GeneratorAssumption DEF IndInv, TypeOK

\* The handlers of the Steam session: the pending request may fail.
LEMMA SessionKeepsInv ==
  ASSUME IndInv, Handled, UNCHANGED outstanding, UNCHANGED clientVars \/ FailSession,
         session' \in {"connecting", "authorizing", "loggingOn", "closing", "hello", "gc", "down"},
         token' \in BOOLEAN, retries' \in 0 .. MaxCmRetries
  PROVE  IndInv'
<1>1. CASE UNCHANGED clientVars
  <2>1. /\ UNCHANGED << pending, captured, completion >> /\ outstanding' \subseteq outstanding
        /\ gcReady' \in {"pending", "ready", "failed"}
    BY <1>1, SteamTypes DEF clientVars
  <2> QED
    BY <2>1, HandlerKeepsInv
<1>2. CASE FailSession
  <2>1. /\ UNCHANGED << pending, captured >> /\ outstanding' \subseteq outstanding
        /\ gcReady' \in {"pending", "ready", "failed"}
        /\ \/ completion' = completion
           \/ completion.state # "set" /\ completion' = [completion EXCEPT !.state = "failed"]
    BY <1>2, SteamTypes DEF FailSession
  <2> QED
    BY <2>1, HandlerKeepsInv
<1> QED
  BY <1>1, <1>2

\* The coordinator is there.
LEMMA OnWelcomeKeepsInv == ASSUME IndInv, OnWelcome PROVE IndInv'
<1>1. /\ Handled /\ UNCHANGED << pending, completion, captured, token, retries, outstanding >>
      /\ session' = "gc" /\ gcReady' \in {"pending", "ready", "failed"}
  BY SteamTypes DEF OnWelcome
<1> QED
  BY <1>1, SteamTypes, HandlerKeepsInv

\* An answer is taken for the request that asks for its account.
LEMMA OnProfileKeepsInv ==
  ASSUME IndInv, NEW id \in outstanding, OnProfile(id)
  PROVE  IndInv'
<1>1. /\ Handled /\ UNCHANGED << gcReady, pending, completion, session, token, retries >>
      /\ outstanding' = outstanding \ {id}
      /\ captured' = IF Answers(id)
                     THEN [id |-> pending, flair |-> FlairOf[AccountAsked(id)]] ELSE NoRequest
  BY DEF OnProfile
<1>2. /\ UNCHANGED << pending, completion >> /\ outstanding' \subseteq outstanding
      /\ gcReady' \in {"pending", "ready", "failed"}
      /\ session' \in {"connecting", "authorizing", "loggingOn", "closing", "hello", "gc", "down"}
      /\ token' \in BOOLEAN /\ retries' \in 0 .. MaxCmRetries
  BY <1>1, SteamTypes
<1>3. CASE Answers(id)
  <2>1. pending \in Requests /\ Valid(pending[1]) /\ AccountAsked(pending) = AccountAsked(id)
    BY <1>3 DEF Answers, IndInv, TypeOK, RequestInv, AnswersRight
  <2>2. pending[1] \in Keys /\ FlairOf[AccountAsked(pending)] \in Flairs
    BY <2>1, Constants DEF Requests, AccountAsked
  <2>3. /\ captured' \in [id : Requests, flair : Flairs]
        /\ Valid(captured'.id[1]) /\ captured'.flair = FlairOf[AccountAsked(captured'.id)]
    BY <1>1, <1>3, <2>1, <2>2
  <2>4. Handled
    BY <1>1
  <2> QED
    BY <1>2, <2>3, <2>4, HandlerKeepsInv
<1>4. CASE ~Answers(id)
  <2>1. captured' = NoRequest /\ Handled
    BY <1>1, <1>4
  <2> QED
    BY <1>2, <2>1, HandlerKeepsInv
<1> QED
  BY <1>3, <1>4

\* The captured completion is set, if the task still waits for it.
LEMMA CompleteKeepsInv == ASSUME IndInv, CompleteCaptured PROVE IndInv'
<1>1. /\ Handled /\ UNCHANGED << gcReady, pending, session, token, retries, outstanding >>
      /\ captured' = NoRequest
      /\ \/ completion' = completion
         \/ /\ captured # NoRequest /\ completion.id = captured.id
            /\ completion' = [completion EXCEPT !.state = "set", !.flair = captured.flair]
  BY DEF CompleteCaptured, steamVars
<1> QED
  BY <1>1, SteamTypes, HandlerKeepsInv

LEMMA CallbackPumpKeepsInv == ASSUME IndInv, CallbackPump PROVE IndInv'
<1>1. CASE OnConnected
  BY <1>1, SteamTypes, SessionKeepsInv DEF OnConnected
<1>2. ASSUME NEW ok \in BOOLEAN, Authorized(ok) PROVE IndInv'
  BY <1>2, SteamTypes, SessionKeepsInv DEF Authorized
<1>3. ASSUME NEW result \in {"OK", "TryAnotherCM", "Denied"}, OnLoggedOn(result) PROVE IndInv'
  BY <1>3, SteamTypes, SessionKeepsInv DEF OnLoggedOn
<1>4. CASE OnLoggedOff \/ OnDisconnected
  BY <1>4, SteamTypes, SessionKeepsInv DEF OnLoggedOff, OnDisconnected
<1> QED
  BY <1>1, <1>2, <1>3, <1>4, OnWelcomeKeepsInv, OnProfileKeepsInv, CompleteKeepsInv
  DEF CallbackPump
-------------------------------------------------------------------------------
LEMMA NextKeepsInv == IndInv /\ [Next]_vars => IndInv'
<1> SUFFICES ASSUME IndInv, [Next]_vars PROVE IndInv'
  OBVIOUS
<1>1. CASE Cancel \/ UNCHANGED vars
  <2>1. /\ UNCHANGED << pc, todo, attempt, outcome, saving, exit, runs >>
        /\ UNCHANGED << root, cache, updated, overwrite, file, tmp >>
        /\ UNCHANGED << gcReady, pending, completion, captured >>
        /\ UNCHANGED << session, token, retries, outstanding >>
        /\ cancelled' \in BOOLEAN
    BY <1>1 DEF Cancel, vars, taskVars, dataVars, diskVars, clientVars, steamVars, IndInv, TypeOK
  <2>2. TypeOK'
    BY <2>1 DEF IndInv, TypeOK
  <2>3. EntryChosen' /\ PendingIsCurrent'
    BY <2>1 DEF IndInv, RequestInv, EntryChosen, PendingIsCurrent, Current, Entry
  <2>4. AnswersRight'
    BY <2>1 DEF IndInv, RequestInv, AnswersRight, AccountAsked, Account, Entry
  <2>5. DocumentsRight' /\ UnsavedCounted'
    BY <2>1 DEF IndInv, DataInv, DocumentsRight, UnsavedCounted, Unsaved
  <2>6. Progress' /\ OldOnesKept'
    BY <2>1 DEF IndInv, DataInv, Progress, OldOnesKept
  <2> QED
    BY <2>2, <2>3, <2>4, <2>5, <2>6 DEF IndInv, RequestInv, DataInv
<1>2. CASE Kill
  BY <1>2, ExitKeepsInv DEF Kill, diskVars
<1> QED
  BY <1>1, <1>2, StartKeepsInv, MainTaskKeepsInv, CallbackPumpKeepsInv DEF Next

\* The types, the requests and the data are as described in every reachable
\* state.
THEOREM AlwaysIndInv == Spec => []IndInv
BY InitIndInv, NextKeepsInv, PTL DEF Spec

THEOREM TypeCorrect == Spec => []TypeOK
<1>1. IndInv => TypeOK
  BY DEF IndInv
<1> QED
  BY <1>1, AlwaysIndInv, PTL

\* No entry ever holds the flair of another account, in memory or on disk,
\* whichever request a late answer belongs to.
THEOREM FlairsAlwaysRight == Spec => []RightFlair
<1>1. IndInv => RightFlair
  <2> SUFFICES ASSUME IndInv, NEW k \in Keys, NEW document \in {root, file} \ {Torn}
               PROVE  document[k] \in {OldFlair[k]} \cup
                                      {FlairOf[a] : a \in {AccountOf[k]} \cap Accounts}
    BY DEF RightFlair
  <2>1. Right(k, document[k])
    BY DEF IndInv, DataInv, DocumentsRight
  <2> QED
    BY <2>1 DEF Right, Valid
<1> QED
  BY <1>1, AlwaysIndInv, PTL

\* The file is a whole document at any moment and lacks at most the answers since
\* the last checkpoint.
THEOREM LossAlwaysBounded == Spec => []LossBounded
<1>1. IndInv => LossBounded
  <2> SUFFICES ASSUME IndInv PROVE LossBounded
    OBVIOUS
  <2>1. file # Torn
    BY GeneratorAssumption DEF IndInv, DataInv, DocumentsRight
  <2>2. Cardinality(Unsaved) \in Nat
    BY CountsAreNumbers DEF IndInv
  <2>3. updated % CheckpointEvery \in 0 .. CheckpointEvery - 1
    BY NextModulo DEF IndInv, TypeOK
  <2>4. Cardinality(Unsaved) <= CheckpointEvery
    BY <2>2, <2>3, Constants DEF IndInv, DataInv, UnsavedCounted
  <2> QED
    BY <2>1, <2>4 DEF LossBounded, Unsaved
<1> QED
  BY <1>1, AlwaysIndInv, PTL

\* A new request never finds another one pending.
THEOREM RequestsNeverOverlap == Spec => []OneRequestAtATime
<1>1. IndInv => OneRequestAtATime
  BY DEF IndInv, RequestInv, PendingIsCurrent, OneRequestAtATime
<1> QED
  BY <1>1, AlwaysIndInv, PTL

\* Without --overwrite no flair of the file is replaced, across saves, crashes and
\* runs.
THEOREM FlairsAlwaysKept == Spec => KeepsFlairs
<1> DEFINE Kept == ~overwrite =>
                     \A k \in Keys : file # Torn /\ file[k] # 0 => file'[k] = file[k]
<1>1. IndInv /\ [Next]_vars => [Kept]_vars
  <2> SUFFICES ASSUME IndInv, Next PROVE Kept
    OBVIOUS
  <2>1. file' = file \/ file' = root
    <3>1. CASE MoveOver
      BY <3>1 DEF MoveOver, IndInv, DataInv, DocumentsRight
    <3>2. CASE ~MoveOver
      <4>1. MainTask => file' = file
        BY <3>2 DEF MainTask, ConnectAsync, NextEntry, SendRequest, AwaitProfile, CloseRequest,
                    Backoff, Pause, WriteTemporary, TemporaryWritten, SaveFails, diskVars
      <4>2. CallbackPump => file' = file
        BY DEF CallbackPump, OnConnected, OnLoggedOff, OnDisconnected, OnWelcome,
               CompleteCaptured, Authorized, OnLoggedOn, OnProfile, Handled, diskVars
      <4> QED
        BY <4>1, <4>2 DEF Next, Start, Cancel, Kill, diskVars
    <3> QED
      BY <3>1, <3>2
  <2> QED
    BY <2>1 DEF IndInv, DataInv, OldOnesKept
<1> QED
  BY <1>1, AlwaysIndInv, PTL DEF Spec, KeepsFlairs

\* The generator implements the abstract file: a save enters the answers that are
\* not in the file yet, every other step leaves the file alone.
THEOREM GeneratorImplementsFile == Spec => ImplementsFile
<1> DEFINE Answer == [k \in {e \in Keys : AccountOf[e] # Invalid} |-> FlairOf[AccountOf[k]]]
<1>1. Init => File!Init
  BY DEF Init, File!Init
<1>2. ASSUME IndInv, [Next]_vars PROVE [File!Next]_<< file, overwrite >>
  <2>1. CASE MoveOver
    <3>1. file' = root /\ overwrite' = overwrite /\ pc = "move"
      BY <1>2, <2>1 DEF MoveOver, dataVars, IndInv, DataInv, DocumentsRight
    <3>2. /\ root \in Contents /\ file \in Contents /\ DOMAIN OldFlair = Keys
          /\ \A k \in Unsaved : Valid(k) /\ root[k] = FlairOf[AccountOf[k]]
      BY <1>2, GeneratorAssumption DEF IndInv, DataInv, DocumentsRight, Unsaved
    <3>3. Unsaved \subseteq DOMAIN Answer /\ \A k \in Unsaved : Answer[k] = root[k]
      BY <3>2, GeneratorAssumption DEF Unsaved, Valid
    <3>4. \A k \in Unsaved : overwrite \/ file[k] = 0
      BY <1>2 DEF IndInv, DataInv, OldOnesKept, Unsaved
    <3>5. Cardinality(Unsaved) <= CheckpointEvery
      <4>1. Cardinality(Unsaved) \in Nat
        BY <1>2, CountsAreNumbers DEF IndInv
      <4>2. updated % CheckpointEvery \in 0 .. CheckpointEvery - 1
        BY <1>2, NextModulo DEF IndInv, TypeOK
      <4> QED
        BY <1>2, <4>1, <4>2, Constants DEF IndInv, DataInv, UnsavedCounted
    <3> HIDE DEF Answer
    <3>6. file' = [k \in DOMAIN OldFlair |-> IF k \in Unsaved THEN Answer[k] ELSE file[k]]
      <4>1. \A k \in Keys : root[k] = IF k \in Unsaved THEN Answer[k] ELSE file[k]
        BY <3>3 DEF Unsaved
      <4>2. root = [k \in Keys |-> root[k]]
        BY <3>2 DEF Contents
      <4> QED
        BY <3>1, <3>2, <4>1, <4>2
    <3>7. File!Save(Unsaved)
      <4>1. UNCHANGED overwrite
        BY <3>1
      <4>2. File!Cardinality(Unsaved) = Cardinality(Unsaved)
        BY DEF File!Cardinality, Cardinality
      <4> QED
        BY <4>1, <4>2, <3>4, <3>5, <3>6 DEF File!Save, Answer
    <3> QED
      BY <3>3, <3>7 DEF File!Next, Answer
  <2>2. ASSUME NEW all \in BOOLEAN, Start(all) PROVE File!Run
    BY <2>2 DEF Start, File!Run
  <2>3. CASE ~MoveOver /\ (MainTask \/ CallbackPump \/ Cancel \/ Kill \/ UNCHANGED vars)
    <3>1. MainTask => file' = file /\ overwrite' = overwrite
      BY <2>3 DEF MainTask, ConnectAsync, NextEntry, SendRequest, AwaitProfile, CloseRequest,
                  Backoff, Pause, WriteTemporary, TemporaryWritten, SaveFails, diskVars,
                  Record, FinalSave, dataVars
    <3>2. CallbackPump => file' = file /\ overwrite' = overwrite
      BY DEF CallbackPump, OnConnected, OnLoggedOff, OnDisconnected, OnWelcome, CompleteCaptured,
             Authorized, OnLoggedOn, OnProfile, Handled, diskVars, dataVars
    <3>3. Cancel \/ Kill \/ UNCHANGED vars => file' = file /\ overwrite' = overwrite
      BY DEF Cancel, Kill, vars, diskVars, dataVars
    <3> QED
      BY <2>3, <3>1, <3>2, <3>3
  <2> QED
    BY <1>2, <2>1, <2>2, <2>3 DEF Next, File!Next
<1> QED
  BY <1>1, <1>2, AlwaysIndInv, PTL DEF Spec, ImplementsFile, File!Spec
===============================================================================
