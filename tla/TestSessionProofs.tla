------------------------- MODULE TestSessionProofs -------------------------
(***************************************************************************)
(* Proofs about TestSession.tla, for any number of workers, tests and      *)
(* dying workers, and any earlier log: what the notification says.  The    *)
(* facts about the log itself are those of ErrorLogProofs.tla.             *)
(***************************************************************************)
EXTENDS TestSession, FiniteSetTheorems, SequenceTheorems, TLAPS

E == INSTANCE ErrorLogProofs WITH Calls <- Requested, MaxEntries <- 0

-----------------------------------------------------------------------------
(***************************************************************************)
(* The inductive invariant.                                                *)
(***************************************************************************)
CtlPlaces == {"start", "command", "session", "checking", "exiting",
              "notifying", "notified", "refused", "unread", "passed"}
WorkerPlaces == {"absent", "import", "collecting", "ready", "testing",
                 "recording", "broken", "done"}

TypeOK ==
    /\ keep \in BOOLEAN
    /\ found \in Logs
    /\ pc \in [Procs -> CtlPlaces \cup WorkerPlaces]
    /\ todo \subseteq Tests
    /\ running \in [Workers -> Tests \cup {NoTest}]
    /\ owed \in [Workers -> Seq({EntryOf(t, phase) : t \in Tests, phase \in Phases})]
    /\ reports \in [Tests -> SUBSET Phases]
    /\ scheduled \in BOOLEAN
    /\ crashes \in Nat

\* The log that the file stands for.
Current == E!AbstractLog

\* A process died over the empty file, and nobody has written it since.
Gone == file.state = "torn" /\ \A p \in Procs : stage[p] # "truncated"

\* No cleared session of a replacement and no torn file has cost entries.
Undamaged == (keep \/ crashes = 0) /\ ~Gone

\* What a process asks that holds the lock, and what it found when it loaded.
LoadedFits ==
    \A p \in Procs :
        /\ E!InCriticalSection(p) => req[p] # L!Read
        /\ stage[p] = "loaded" =>
             /\ req[p] \in Additions => file.state = "whole"
             /\ req[p] = L!Create => file = L!Absent

\* The import of the click command creates the file, and nobody removes it.
FileExists ==
    file.state = "absent" =>
        \/ pc[Ctl] = "start"
        \/ pc[Ctl] = "command" /\ stage[Ctl] \in {"waiting", "locked", "loaded"}

(***************************************************************************)
(* What the controller asks of the log, place by place.                    *)
(***************************************************************************)
CtlFits ==
    /\ pc[Ctl] \in CtlPlaces
    /\ pc[Ctl] = "start" => stage[Ctl] = "idle"
    /\ pc[Ctl] = "command" => req[Ctl] = L!Create
    /\ pc[Ctl] = "session" => L!Idle(Ctl) \/ (req[Ctl] = L!Wipe /\ ~keep /\ ~scheduled)
    /\ pc[Ctl] \in {"checking", "notifying"} => req[Ctl] = L!Read
    /\ pc[Ctl] = "notifying" => stage[Ctl] # "idle"
    /\ pc[Ctl] = "exiting" => L!Idle(Ctl) \/ req[Ctl] = Comment
    /\ pc[Ctl] \in {"passed", "notified", "refused", "unread"} => L!Idle(Ctl)

(***************************************************************************)
(* What a worker asks of the log, place by place.                          *)
(***************************************************************************)
WorkerFits(w) ==
    /\ pc[w] \in WorkerPlaces
    /\ pc[w] \in {"absent", "ready", "testing", "done", "broken"} => L!Idle(w)
    /\ pc[w] = "import" => req[w] = L!Create
    /\ pc[w] = "collecting" => L!Idle(w) \/ (req[w] = L!Wipe /\ ~keep)
    /\ pc[w] = "recording" =>
        L!Idle(w) \/ \E phase \in Phases : req[w] = EntryOf(running[w], phase)
    /\ stage[w] = "raised" => pc[w] \in {"recording", "broken"} /\ ~Undamaged
    /\ pc[w] = "broken" => stage[w] = "raised"
    /\ pc[w] \in {"testing", "recording"} => running[w] \in Tests
    /\ pc[w] \in {"absent", "import", "collecting", "ready", "done"} => running[w] = NoTest

(***************************************************************************)
(* The course of the session.                                              *)
(***************************************************************************)
SessionFits ==
    /\ pc[Ctl] \in {"start", "command"} => ~scheduled
    /\ ~scheduled /\ ~(pc[Ctl] = "session" /\ L!Idle(Ctl)) =>
        \A w \in Workers : pc[w] = "absent"
    /\ ~scheduled =>
        /\ crashes = 0
        /\ reports = [t \in Tests |-> {}]
        /\ \A w \in Workers : pc[w] \in {"absent", "import", "collecting", "ready"}
    /\ scheduled /\ pc[Ctl] # "session" =>
        \A w \in Workers : pc[w] \in {"done", "broken"}
    /\ scheduled /\ crashes = 0 =>
        \A w \in Workers : pc[w] \notin {"absent", "import", "collecting"}
    /\ crashes = 0 => ~Gone

(***************************************************************************)
(* Before the tests are handed out: what was found is kept, or cleared.    *)
(***************************************************************************)
StartFits ==
    ~scheduled /\ pc[Ctl] \in {"start", "command", "session"} =>
        /\ keep => Current = found
        /\ ~keep /\ pc[Ctl] = "session"
             /\ (L!Idle(Ctl) \/ stage[Ctl] \in {"truncated", "written"})
           => Current = EmptyLog

\* A test is run by one worker, which starts with no report of it.
TestsFit ==
    /\ \A w \in Workers : running[w] \notin todo
    /\ \A v, w \in Workers : running[v] = running[w] /\ running[v] # NoTest => v = w
    /\ \A t \in todo : reports[t] = {}
    /\ \A w \in Workers : pc[w] = "testing" => reports[running[w]] = {}

-----------------------------------------------------------------------------
(***************************************************************************)
(* The accounts: what the log has of a test, and what it still lacks.      *)
(***************************************************************************)
Calls(phases) == IF "call" \in phases THEN 1 ELSE 0
Fixtures(phases) == Cardinality(phases \ {"call"})

AtMost(t, f, e) ==
    /\ InFailures(Current, t) + f <= InFailures(Before, t) + FailedCalls(t)
    /\ InErrors(Current, t) + e <= InErrors(Before, t) + FailedFixtures(t)

Balanced(t, f, e) ==
    /\ InFailures(Current, t) + f = InFailures(Before, t) + FailedCalls(t)
    /\ InErrors(Current, t) + e = InErrors(Before, t) + FailedFixtures(t)

\* The entry that a worker has asked for and that is not in the log.
InHand(w, kind) ==
    IF stage[w] \in {"waiting", "locked", "loaded"} /\ req[w].kind = kind
    THEN 1 ELSE 0

\* The reports that a worker has still to ask an entry for.
Rest(w, phases) ==
    LET t == running[w]
        f == Calls(phases) + InHand(w, "failures")
        e == Fixtures(phases) + InHand(w, "errors")
    IN  /\ owed[w] = EntriesOf(t, phases)
        /\ AtMost(t, f, e)
        /\ Undamaged => Balanced(t, f, e)

\* Tests whose worker died.
Lost == {t \in Tests \ todo : ~Exact(Current, t) /\ \A w \in Workers : running[w] # t}

\* The log holds nothing that did not happen, and has room for what is to come.
NothingTooMuch == \A t \in Tests : AtMost(t, 0, 0)

RestsFit ==
    \A w \in Workers :
        pc[w] = "recording" => \E phases \in SUBSET Phases : Rest(w, phases)

\* The tests without reports are in the log as often as before.
OpenTestsBalanced ==
    /\ \A t \in todo : Balanced(t, 0, 0)
    /\ \A w \in Workers : pc[w] = "testing" => Balanced(running[w], 0, 0)

FewAreLost == IsFiniteSet(Lost) /\ Cardinality(Lost) <= crashes

Accounts ==
    scheduled =>
        /\ NothingTooMuch
        /\ RestsFit
        /\ Undamaged => OpenTestsBalanced /\ FewAreLost

-----------------------------------------------------------------------------
\* What was read for the notification is what the log is.
NoticeFits ==
    /\ scheduled /\ pc[Ctl] = "notifying" /\ stage[Ctl] = "returned" =>
        file.state = "whole" /\ snap[Ctl] = file.log
    /\ notice.sent =>
        /\ pc[Ctl] = "notified"
        /\ scheduled => file.state = "whole" /\ notice.log = file.log

LogFits == E!IInv /\ LoadedFits
WorkersFit == \A w \in Workers : WorkerFits(w)

IInv ==
    /\ LogFits
    /\ TypeOK
    /\ FileExists
    /\ CtlFits
    /\ WorkersFit
    /\ SessionFits
    /\ StartFits
    /\ TestsFit
    /\ Accounts
    /\ NoticeFits
-----------------------------------------------------------------------------
(***************************************************************************)
(* The log is used as ErrorLogProofs.tla assumes.                          *)
(***************************************************************************)
\* An entry of a test is an addition, and of one of two kinds.
LEMMA EntryFacts ==
    ASSUME NEW t \in Tests, NEW phase \in Phases
    PROVE  /\ EntryOf(t, phase) \in Additions
           /\ EntryOf(t, phase) \in Requested
           /\ EntryOf(t, phase).kind =
                IF phase = "call" THEN "failures" ELSE "errors"
           /\ EntryOf(t, phase).group = Group
           /\ EntryOf(t, phase).names = <<t>>
<1>1. <<t>> \in Seq(Names)
  BY TestsAreNames
<1>2. QED
  BY <1>1, GroupIsGroup DEF EntryOf, Additions, Entries, Requested

LEMMA CommentFacts ==
    /\ Comment \in Additions /\ Comment \in Requested
    /\ Comment.kind = "comment" /\ Comment.text = Unsuccessful
BY GroupIsGroup DEF Comment, Additions, Remarks, Requested

\* The data of the log is the same in both instances.
LEMMA SameData ==
    /\ L!EmptyLog = EmptyLog /\ E!EmptyLog = EmptyLog
    /\ E!Logs = Logs
    /\ L!Additions = Additions /\ E!Additions = Additions
    /\ \A r, l : L!Apply(r, l) = Apply(r, l)
    /\ \A r, l : E!Apply(r, l) = Apply(r, l)
<1>1. L!EmptyLog = EmptyLog /\ E!EmptyLog = EmptyLog
  BY DEF EmptyLog, EmptyTable, L!EmptyLog, L!EmptyTable, E!EmptyLog, E!EmptyTable
<1>2. E!Logs = Logs
  BY DEF E!Logs, E!Tables, Logs, Tables
<1>3. L!Additions = Additions /\ E!Additions = Additions
  BY DEF Additions, Entries, Remarks, L!Additions, L!Entries, L!Remarks,
         E!Additions, E!Entries, E!Remarks
<1>4. \A r, l : L!Apply(r, l) = Apply(r, l)
  BY DEF Apply, Extend, ListOf, L!Apply, L!Extend, L!ListOf
<1>5. \A r, l : E!Apply(r, l) = Apply(r, l)
  BY DEF Apply, Extend, ListOf, E!Apply, E!Extend, E!ListOf
<1>6. QED
  BY <1>1, <1>2, <1>3, <1>4, <1>5

LEMMA RequestsAreRequests == Requested \subseteq E!Requests
<1>1. [kind |-> "clear"] \in E!Requests
  BY DEF E!Requests, E!Wipe
<1>2. Additions \subseteq E!Requests
  BY SameData DEF E!Requests
<1>3. QED
  BY <1>1, <1>2, EntryFacts, CommentFacts DEF Requested

\* ErrorLogProofs.tla may be used: what it assumes holds here.
LEMMA Assumptions ==
    /\ NoKey \notin Seq(Names)
    /\ NoProc \notin Procs
    /\ Earlier \subseteq E!Logs
    /\ 0 \in Nat
    /\ Requested \subseteq E!Requests
BY NoKeyIsNoList, NoProcIsNoProcess, EarlierAreLogs, SameData, RequestsAreRequests
   DEF Procs

\* The operations of the two instances of the log are the same.
LEMMA SameOperations ==
    /\ L!Create = E!Create /\ L!Wipe = E!Wipe /\ L!Read = E!Read
    /\ L!Absent = E!Absent /\ L!Torn = E!Torn
    /\ \A p \in Procs : L!Idle(p) <=> E!Idle(p)
    /\ \A p \in Procs, r \in E!Requests : L!Invoke(p, r) <=> E!Invoke(p, r)
    /\ \A p \in Procs : L!LogStep(p) <=> E!LogStep(p)
    /\ \A p \in Procs : L!Kill(p) <=> E!Kill(p)
<1>1. /\ L!Create = E!Create /\ L!Wipe = E!Wipe /\ L!Read = E!Read
      /\ L!Absent = E!Absent /\ L!Torn = E!Torn
  BY SameData DEF L!Create, E!Create, L!Wipe, E!Wipe, L!Read, E!Read,
         L!Absent, E!Absent, L!Torn, E!Torn
<1>2. \A p \in Procs : L!Idle(p) <=> E!Idle(p)
  BY DEF L!Idle, E!Idle
<1>3. \A p \in Procs, r \in E!Requests : L!Invoke(p, r) <=> E!Invoke(p, r)
  BY <1>2, SameData DEF L!Invoke, E!Invoke
<1>4. \A p \in Procs : L!LogStep(p) <=> E!LogStep(p)
  <2> SUFFICES ASSUME NEW p \in Procs PROVE L!LogStep(p) <=> E!LogStep(p)
    OBVIOUS
  <2>1. /\ L!ReadUnlocked(p) <=> E!ReadUnlocked(p)
        /\ L!Acquire(p) <=> E!Acquire(p)
        /\ L!Release(p) <=> E!Release(p)
    BY <1>1, SameData DEF L!ReadUnlocked, E!ReadUnlocked, L!Acquire, E!Acquire,
                L!Release, E!Release
  <2>2. /\ L!Load(p) <=> E!Load(p)
        /\ L!LoadFails(p) <=> E!LoadFails(p)
    BY SameData DEF L!Load, E!Load, L!LoadFails, E!LoadFails
  <2>3. /\ L!New(p) <=> E!New(p)
        /\ L!Exists(p) <=> E!Exists(p)
    BY <1>1, SameData DEF L!New, E!New, L!Exists, E!Exists
  <2>4. /\ L!Truncate(p) <=> E!Truncate(p)
        /\ L!Write(p) <=> E!Write(p)
    BY <1>1 DEF L!Truncate, E!Truncate, L!Write, E!Write, L!Whole, E!Whole
  <2>5. QED
    BY <2>1, <2>2, <2>3, <2>4 DEF L!LogStep, E!LogStep
<1>5. \A p \in Procs : L!Kill(p) <=> E!Kill(p)
  BY <1>1, SameData DEF L!Kill, E!Kill
<1>6. QED
  BY <1>1, <1>2, <1>3, <1>4, <1>5

-----------------------------------------------------------------------------
(***************************************************************************)
(* How often a test is in a list.                                          *)
(***************************************************************************)
LEMMA TimesType ==
    ASSUME NEW list \in Seq(Names), NEW t
    PROVE  /\ IsFiniteSet({i \in DOMAIN list : list[i] = t})
           /\ Times(t, list) \in Nat
<1>1. DOMAIN list = 1 .. Len(list) /\ Len(list) \in Nat
  OBVIOUS
<1>2. IsFiniteSet(1 .. Len(list))
  BY <1>1, FS_Interval
<1>3. {i \in DOMAIN list : list[i] = t} \subseteq 1 .. Len(list)
  BY <1>1
<1>4. IsFiniteSet({i \in DOMAIN list : list[i] = t})
  BY <1>2, <1>3, FS_Subset
<1>5. QED
  BY <1>4, FS_CardinalityType DEF Times

\* One more name in the list is one more of it, and of no other.
LEMMA TimesAppended ==
    ASSUME NEW list \in Seq(Names), NEW t \in Names, NEW s \in Names
    PROVE  Times(s, list \o <<t>>) = Times(s, list) + (IF s = t THEN 1 ELSE 0)
<1> DEFINE longer == list \o <<t>>
           n == Len(list) + 1
           Of(x, q) == {i \in DOMAIN q : q[i] = x}
<1>1. /\ longer \in Seq(Names)
      /\ DOMAIN list = 1 .. Len(list) /\ Len(list) \in Nat
      /\ DOMAIN longer = 1 .. n
      /\ \A i \in 1 .. Len(list) : longer[i] = list[i]
      /\ longer[n] = t
  OBVIOUS
<1>2. n \notin Of(s, list)
  BY <1>1
<1>3. IsFiniteSet(Of(s, list))
  BY TimesType
<1>4. CASE s = t
  <2>1. Of(s, longer) = Of(s, list) \cup {n}
    BY <1>1, <1>4
  <2>2. Cardinality(Of(s, longer)) = Cardinality(Of(s, list)) + 1
    BY <1>2, <1>3, <2>1, FS_AddElement
  <2>3. QED
    BY <1>4, <2>2 DEF Times
<1>5. CASE s # t
  <2>1. Of(s, longer) = Of(s, list)
    BY <1>1, <1>5
  <2>2. Times(s, longer) = Times(s, list)
    BY <2>1 DEF Times
  <2>3. Times(s, list) \in Nat
    BY TimesType
  <2>4. QED
    BY <1>5, <2>2, <2>3
<1>6. QED
  BY <1>4, <1>5

LEMMA CountsType ==
    ASSUME NEW l \in Logs, NEW t
    PROVE  InFailures(l, t) \in Nat /\ InErrors(l, t) \in Nat
<1>1. ListOf(l.failures, Group) \in Seq(Names) /\ ListOf(l.errors, Group) \in Seq(Names)
  BY GroupIsGroup DEF Logs, Tables, ListOf
<1>2. QED
  BY <1>1, TimesType DEF InFailures, InErrors

\* An empty log has no test in it.
LEMMA EmptyCounts ==
    ASSUME NEW t
    PROVE  InFailures(EmptyLog, t) = 0 /\ InErrors(EmptyLog, t) = 0
<1>1. ListOf(EmptyTable, Group) = <<>>
  BY GroupIsGroup DEF EmptyTable, ListOf
<1>2. {i \in DOMAIN <<>> : <<>>[i] = t} = {}
  OBVIOUS
<1>3. Times(t, <<>>) = 0
  BY <1>2, FS_EmptySet DEF Times
<1>4. QED
  BY <1>1, <1>3 DEF InFailures, InErrors, EmptyLog

\* The list of a group after an entry for that group.
LEMMA ListOfExtended ==
    ASSUME NEW table \in Tables, NEW names \in Seq(Names)
    PROVE  ListOf(Extend(table, Group, names), Group) = ListOf(table, Group) \o names
<1>1. ListOf(table, Group) \in Seq(Names)
  BY GroupIsGroup DEF Tables, ListOf
<1>2. ListOf(table, Group) \o names \in Seq(Names)
  BY <1>1
<1>3. Extend(table, Group, names)[Group] = ListOf(table, Group) \o names
  BY GroupIsGroup DEF Extend, Tables
<1>4. QED
  BY <1>2, <1>3, NoKeyIsNoList DEF ListOf

(***************************************************************************)
(* An entry adds one to one count of one test.                             *)
(***************************************************************************)
LEMMA EntryCounts ==
    ASSUME NEW l \in Logs, NEW t \in Tests, NEW s \in Tests, NEW phase \in Phases
    PROVE  LET m == Apply(EntryOf(t, phase), l)
           IN  /\ InFailures(m, s) = InFailures(l, s)
                    + (IF s = t /\ phase = "call" THEN 1 ELSE 0)
               /\ InErrors(m, s) = InErrors(l, s)
                    + (IF s = t /\ phase # "call" THEN 1 ELSE 0)
<1> DEFINE m == Apply(EntryOf(t, phase), l)
<1>1. s \in Names /\ t \in Names /\ <<t>> \in Seq(Names)
  BY TestsAreNames
<1>2. /\ l.failures \in Tables /\ l.errors \in Tables
      /\ ListOf(l.failures, Group) \in Seq(Names)
      /\ ListOf(l.errors, Group) \in Seq(Names)
  BY GroupIsGroup DEF Logs, Tables, ListOf
<1>3. InFailures(l, s) \in Nat /\ InErrors(l, s) \in Nat
  BY CountsType
<1>4. CASE phase = "call"
  <2>1. m = [l EXCEPT !.failures = Extend(@, Group, <<t>>)]
    BY <1>4, EntryFacts DEF Apply
  <2>2. m.failures = Extend(l.failures, Group, <<t>>) /\ m.errors = l.errors
    BY <2>1 DEF Logs
  <2>3. InFailures(m, s) = Times(s, ListOf(l.failures, Group) \o <<t>>)
    BY <1>1, <1>2, <2>2, ListOfExtended DEF InFailures
  <2>4. InErrors(m, s) = InErrors(l, s)
    BY <2>2 DEF InErrors
  <2>5. QED
    BY <1>1, <1>2, <1>3, <1>4, <2>3, <2>4, TimesAppended DEF InFailures
<1>5. CASE phase # "call"
  <2>1. m = [l EXCEPT !.errors = Extend(@, Group, <<t>>)]
    BY <1>5, EntryFacts DEF Apply
  <2>2. m.errors = Extend(l.errors, Group, <<t>>) /\ m.failures = l.failures
    BY <2>1 DEF Logs
  <2>3. InErrors(m, s) = Times(s, ListOf(l.errors, Group) \o <<t>>)
    BY <1>1, <1>2, <2>2, ListOfExtended DEF InErrors
  <2>4. InFailures(m, s) = InFailures(l, s)
    BY <2>2 DEF InFailures
  <2>5. QED
    BY <1>1, <1>2, <1>3, <1>5, <2>3, <2>4, TimesAppended DEF InErrors
<1>6. QED
  BY <1>4, <1>5

\* A comment adds to no count.
LEMMA CommentCounts ==
    ASSUME NEW l \in Logs, NEW t
    PROVE  /\ InFailures(Apply(Comment, l), t) = InFailures(l, t)
           /\ InErrors(Apply(Comment, l), t) = InErrors(l, t)
<1>1. Apply(Comment, l) = [l EXCEPT !.comments = Append(@, Unsuccessful)]
  BY CommentFacts DEF Apply
<1>2. QED
  BY <1>1 DEF Logs, InFailures, InErrors

-----------------------------------------------------------------------------
(***************************************************************************)
(* The entries for the failed reports of a test.                           *)
(***************************************************************************)
LEMMA PhaseCounts ==
    ASSUME NEW phases \in SUBSET Phases
    PROVE  /\ Calls(phases) \in Nat /\ Fixtures(phases) \in Nat
           /\ \A phase \in phases :
                /\ Calls(phases) = Calls(phases \ {phase})
                                    + (IF phase = "call" THEN 1 ELSE 0)
                /\ Fixtures(phases) = Fixtures(phases \ {phase})
                                    + (IF phase # "call" THEN 1 ELSE 0)
<1>1. IsFiniteSet(Phases)
  <2>1. Phases = ({"setup"} \cup {"call"}) \cup {"teardown"}
    BY DEF Phases
  <2>2. QED
    BY <2>1, FS_Singleton, FS_Union
<1>2. IsFiniteSet(phases) /\ IsFiniteSet(phases \ {"call"})
  BY <1>1, FS_Subset
<1>3. Calls(phases) \in Nat /\ Fixtures(phases) \in Nat
  BY <1>2, FS_CardinalityType DEF Calls, Fixtures
<1>4. ASSUME NEW phase \in phases
      PROVE  Calls(phases) = Calls(phases \ {phase}) + (IF phase = "call" THEN 1 ELSE 0)
  BY DEF Calls
<1>5. ASSUME NEW phase \in phases
      PROVE  Fixtures(phases) = Fixtures(phases \ {phase})
                                    + (IF phase # "call" THEN 1 ELSE 0)
  <2> DEFINE S == phases \ {"call"}
  <2>1. CASE phase = "call"
    <3>1. (phases \ {phase}) \ {"call"} = S
      BY <2>1
    <3>2. QED
      BY <1>3, <2>1, <3>1 DEF Fixtures
  <2>2. CASE phase # "call"
    <3>1. (phases \ {phase}) \ {"call"} = S \ {phase} /\ phase \in S
      BY <2>2
    <3>2. Cardinality(S \ {phase}) = Cardinality(S) - 1
      BY <1>2, <3>1, FS_RemoveElement
    <3>3. QED
      BY <1>3, <2>2, <3>1, <3>2 DEF Fixtures
  <2>3. QED
    BY <2>1, <2>2
<1>6. QED
  BY <1>3, <1>4, <1>5

LEMMA NoPhases == Calls({}) = 0 /\ Fixtures({}) = 0
<1>1. {} \ {"call"} = {}
  OBVIOUS
<1>2. QED
  BY <1>1, FS_EmptySet DEF Calls, Fixtures

LEMMA EntriesType ==
    ASSUME NEW t \in Tests, NEW phases \in SUBSET Phases
    PROVE  EntriesOf(t, phases) \in Seq({EntryOf(s, phase) : s \in Tests, phase \in Phases})
<1> DEFINE Set == {EntryOf(s, phase) : s \in Tests, phase \in Phases}
           For(phase) == IF phase \in phases THEN <<EntryOf(t, phase)>> ELSE <<>>
<1>1. ASSUME NEW phase \in Phases PROVE For(phase) \in Seq(Set)
  <2>1. EntryOf(t, phase) \in Set
    OBVIOUS
  <2> HIDE DEF Set
  <2>2. QED
    BY <2>1
<1>2. For("setup") \in Seq(Set) /\ For("call") \in Seq(Set) /\ For("teardown") \in Seq(Set)
  BY <1>1 DEF Phases
<1> HIDE DEF For, Set
<1>3. For("setup") \o For("call") \o For("teardown") \in Seq(Set)
  BY <1>2
<1>4. QED
  BY <1>3 DEF EntriesOf, For, Set

LEMMA HeadAndTail ==
    ASSUME NEW S, NEW x \in S, NEW rest \in Seq(S)
    PROVE  Head(<<x>> \o rest) = x /\ Tail(<<x>> \o rest) = rest
<1>1. /\ <<x>> \o rest \in Seq(S) /\ <<x>> \o rest # <<>>
      /\ Len(<<x>> \o rest) = Len(rest) + 1
      /\ (<<x>> \o rest)[1] = x
      /\ \A i \in 1 .. Len(rest) : (<<x>> \o rest)[i + 1] = rest[i]
  OBVIOUS
<1>2. /\ Tail(<<x>> \o rest) \in Seq(S)
      /\ Len(Tail(<<x>> \o rest)) = Len(rest)
      /\ \A i \in 1 .. Len(rest) : Tail(<<x>> \o rest)[i] = rest[i]
  BY <1>1, HeadTailProperties
<1>3. Tail(<<x>> \o rest) = rest
  BY <1>2, SeqEqual
<1>4. QED
  BY <1>1, <1>3

\* The first entry is that of a failed report, the others are those of the rest.
LEMMA FirstEntry ==
    ASSUME NEW t \in Tests, NEW phases \in SUBSET Phases, EntriesOf(t, phases) # <<>>
    PROVE  \E phase \in phases :
               /\ Head(EntriesOf(t, phases)) = EntryOf(t, phase)
               /\ Tail(EntriesOf(t, phases)) = EntriesOf(t, phases \ {phase})
<1> DEFINE e(phase) == EntryOf(t, phase)
           Set == {EntryOf(s, phase) : s \in Tests, phase \in Phases}
<1>1. ASSUME NEW phase \in phases,
             EntriesOf(t, phases) = <<e(phase)>> \o EntriesOf(t, phases \ {phase})
      PROVE  /\ Head(EntriesOf(t, phases)) = EntryOf(t, phase)
             /\ Tail(EntriesOf(t, phases)) = EntriesOf(t, phases \ {phase})
  <2>1. e(phase) \in Set /\ EntriesOf(t, phases \ {phase}) \in Seq(Set)
    BY EntriesType
  <2> HIDE DEF e, Set
  <2>2. /\ Head(EntriesOf(t, phases)) = e(phase)
        /\ Tail(EntriesOf(t, phases)) = EntriesOf(t, phases \ {phase})
    BY <1>1, <2>1, HeadAndTail
  <2>3. QED
    BY <2>2 DEF e
<1> HIDE DEF e, Set
<1>2. CASE "setup" \in phases
  <2>1. EntriesOf(t, phases) = <<e("setup")>> \o EntriesOf(t, phases \ {"setup"})
    <3>1. CASE "call" \in phases /\ "teardown" \in phases
      BY <1>2, <3>1 DEF EntriesOf, e
    <3>2. CASE "call" \in phases /\ "teardown" \notin phases
      BY <1>2, <3>2 DEF EntriesOf, e
    <3>3. CASE "call" \notin phases /\ "teardown" \in phases
      BY <1>2, <3>3 DEF EntriesOf, e
    <3>4. CASE "call" \notin phases /\ "teardown" \notin phases
      BY <1>2, <3>4 DEF EntriesOf, e
    <3>5. QED
      BY <3>1, <3>2, <3>3, <3>4
  <2>2. QED
    BY <1>1, <1>2, <2>1
<1>3. CASE "setup" \notin phases /\ "call" \in phases
  <2>1. EntriesOf(t, phases) = <<e("call")>> \o EntriesOf(t, phases \ {"call"})
    <3>1. CASE "teardown" \in phases
      BY <1>3, <3>1 DEF EntriesOf, e
    <3>2. CASE "teardown" \notin phases
      BY <1>3, <3>2 DEF EntriesOf, e
    <3>3. QED
      BY <3>1, <3>2
  <2>2. QED
    BY <1>1, <1>3, <2>1
<1>4. CASE "setup" \notin phases /\ "call" \notin phases /\ "teardown" \in phases
  <2>1. EntriesOf(t, phases) = <<e("teardown")>> \o EntriesOf(t, phases \ {"teardown"})
    BY <1>4 DEF EntriesOf, e
  <2>2. QED
    BY <1>1, <1>4, <2>1
<1>5. CASE "setup" \notin phases /\ "call" \notin phases /\ "teardown" \notin phases
  BY <1>5 DEF EntriesOf
<1>6. QED
  BY <1>2, <1>3, <1>4, <1>5

\* There is nothing to record for a test without failed reports, and only then.
LEMMA NoEntries ==
    ASSUME NEW t \in Tests, NEW phases \in SUBSET Phases, EntriesOf(t, phases) = <<>>
    PROVE  phases = {}
<1> DEFINE e(phase) == EntryOf(t, phase)
<1> HIDE DEF e
<1>1. "setup" \notin phases /\ "call" \notin phases /\ "teardown" \notin phases
  <2>1. CASE "setup" \in phases
    BY <2>1 DEF EntriesOf
  <2>2. CASE "call" \in phases
    BY <2>2 DEF EntriesOf
  <2>3. CASE "teardown" \in phases
    BY <2>3 DEF EntriesOf
  <2>4. QED
    BY <2>1, <2>2, <2>3
<1>2. QED
  BY <1>1 DEF Phases

-----------------------------------------------------------------------------
(***************************************************************************)
(* The steps of the log, whoever makes them.                               *)
(***************************************************************************)
\* The types of the log, by their own names.
LEMMA LogTypes ==
    ASSUME LogFits
    PROVE  /\ stage \in [Procs -> E!Stages]
           /\ req \in [Procs -> Requested \cup {E!Create, E!Read}]
           /\ snap \in [Procs -> Logs]
           /\ file \in E!Files /\ file.log \in Logs
           /\ file.state \in {"absent", "torn", "whole"}
           /\ file.state = "absent" => file = E!Absent
           /\ file.state # "whole" => file.log = EmptyLog
           /\ Current \in Logs
<1>1. E!LogTypeOK
  BY DEF LogFits, E!IInv
<1>2. /\ stage \in [Procs -> E!Stages]
      /\ req \in [Procs -> Requested \cup {E!Create, E!Read}]
      /\ snap \in [Procs -> Logs]
      /\ file \in E!Files
  BY <1>1, SameData DEF E!LogTypeOK
<1>3. /\ file.state \in {"absent", "torn", "whole"}
      /\ file.state = "absent" => file = E!Absent
      /\ file.state # "whole" => file.log = EmptyLog
  BY <1>2, SameData DEF E!Files, E!Absent, E!Torn
<1>4. file.log \in Logs
  BY <1>2, E!FileLogType, Assumptions, SameData
<1>5. Current \in Logs
  <2>1. CASE \E p \in Procs : stage[p] = "truncated"
    <3>1. PICK p \in Procs : stage[p] = "truncated"
      BY <2>1
    <3>2. Current = snap[p]
      BY <3>1, E!LogOfWriter, Assumptions DEF Current, LogFits
    <3>3. QED
      BY <1>2, <3>2
  <2>2. CASE \A p \in Procs : stage[p] # "truncated"
    BY <1>4, <2>2, E!LogOfFile, Assumptions DEF Current
  <2>3. QED
    BY <2>1, <2>2
<1>6. QED
  BY <1>2, <1>3, <1>4, <1>5

\* The kinds of the requests keep them apart.
LEMMA RequestKinds ==
    /\ E!Create \notin Additions /\ E!Wipe \notin Additions /\ E!Read \notin Additions
    /\ E!Create # E!Read /\ E!Wipe # E!Read /\ E!Wipe # E!Create
BY E!OtherRequests, Assumptions, SameData

\* Two processes are never between lock and unlock.
LEMMA OneWriter ==
    ASSUME LogFits, NEW p \in Procs, NEW q \in Procs, p # q,
           E!InCriticalSection(p)
    PROVE  stage[q] \notin {"locked", "loaded", "truncated", "written"}
BY DEF LogFits, E!IInv, E!WriterHoldsLock, E!InCriticalSection

\* A step after which the log and the file are what they were.
Quiet ==
    /\ LogFits'
    /\ Current' = Current
    /\ file' = file
    /\ Gone' <=> Gone

LEMMA LogKept ==
    ASSUME LogFits, UNCHANGED logVars
    PROVE  Quiet
<1>1. E!IInv'
  BY DEF logVars, LogFits, E!IInv, E!LogTypeOK, E!WriterHoldsLock, E!InCriticalSection,
         E!SnapshotIsCurrent, E!TornByWriter
<1>2. LoadedFits'
  BY DEF logVars, LogFits, LoadedFits, E!InCriticalSection
<1>3. Current' = Current
  BY DEF logVars, Current, E!AbstractLog
<1>4. Gone' <=> Gone
  BY DEF logVars, Gone
<1>5. QED
  BY <1>1, <1>2, <1>3, <1>4 DEF logVars, Quiet, LogFits

LEMMA InvokeKept ==
    ASSUME LogFits, NEW p \in Procs, NEW r \in Requested \cup {L!Create, L!Read},
           L!Invoke(p, r)
    PROVE  /\ Quiet
           /\ L!Idle(p)
           /\ stage' = [stage EXCEPT ![p] = "waiting"]
           /\ req' = [req EXCEPT ![p] = r]
           /\ \A q \in Procs \ {p} : snap'[q] = snap[q]
<1>1. E!Invoke(p, r) /\ r \in E!Requests
  <2>1. r \in E!Requests
    BY RequestsAreRequests, SameOperations DEF E!Requests
  <2>2. QED
    BY <2>1, SameOperations
<1>2. E!IInv'
  BY <1>1, E!InvokeInv, Assumptions, SameOperations DEF LogFits
<1>3. /\ L!Idle(p)
      /\ stage' = [stage EXCEPT ![p] = "waiting"]
      /\ req' = [req EXCEPT ![p] = r]
      /\ snap' = [snap EXCEPT ![p] = EmptyLog]
      /\ file' = file
  BY SameData DEF L!Invoke
<1>4. \A q \in Procs \ {p} : snap'[q] = snap[q]
  BY <1>3, LogTypes
<1>5. Current' = Current
  BY <1>1, <1>2, E!OtherStepsRefine, Assumptions DEF LogFits, Current
<1>6. stage[p] # "truncated" /\ stage'[p] # "truncated"
  BY <1>3, LogTypes DEF L!Idle
<1>7. Gone' <=> Gone
  BY <1>3, <1>6, LogTypes DEF Gone
<1>8. LoadedFits'
  BY <1>3, LogTypes DEF LogFits, LoadedFits, E!InCriticalSection
<1>9. QED
  BY <1>2, <1>3, <1>4, <1>5, <1>7, <1>8 DEF Quiet, LogFits

(***************************************************************************)
(* What every step of an operation leaves alone.                           *)
(***************************************************************************)
LEMMA LogStepFacts ==
    ASSUME LogFits, NEW p \in Procs, E!LogStep(p)
    PROVE  /\ ~E!Idle(p)
           /\ req' = req
           /\ stage'[p] # "idle"
           /\ \A q \in Procs \ {p} : stage'[q] = stage[q] /\ snap'[q] = snap[q]
           /\ file'.state = "absent" => file' = file
<1> USE LogTypes
<1>1. CASE E!ReadUnlocked(p) \/ E!Acquire(p)
  BY <1>1 DEF E!ReadUnlocked, E!Acquire, E!Idle
<1>2. CASE E!Load(p) \/ E!LoadFails(p)
  BY <1>2 DEF E!Load, E!LoadFails, E!Idle
<1>3. CASE E!New(p) \/ E!Exists(p)
  BY <1>3 DEF E!New, E!Exists, E!Idle
<1>4. CASE E!Truncate(p) \/ E!Write(p)
  BY <1>4 DEF E!Truncate, E!Write, E!Idle, E!Torn, E!Whole
<1>5. CASE E!Release(p)
  BY <1>5 DEF E!Release, E!Idle
<1>6. QED
  BY <1>1, <1>2, <1>3, <1>4, <1>5 DEF E!LogStep

LEMMA LogStepFits ==
    ASSUME LogFits, NEW p \in Procs, E!LogStep(p)
    PROVE  LogFits'
<1>1. E!IInv'
  BY E!LogStepInv, Assumptions DEF LogFits
<1>2. LoadedFits'
  <2> USE LogTypes
  <2>1. CASE E!ReadUnlocked(p) \/ E!Acquire(p)
    BY <2>1, SameOperations
       DEF LogFits, LoadedFits, E!InCriticalSection, E!ReadUnlocked, E!Acquire
  <2>2. CASE E!Load(p) \/ E!LoadFails(p)
    BY <2>2, SameData, SameOperations, RequestKinds
       DEF LogFits, LoadedFits, E!InCriticalSection, E!Load, E!LoadFails
  <2>3. CASE E!New(p) \/ E!Exists(p)
    BY <2>3, SameOperations, RequestKinds
       DEF LogFits, LoadedFits, E!InCriticalSection, E!New, E!Exists
  <2>4. CASE E!Truncate(p) \/ E!Write(p)
    <3>1. E!InCriticalSection(p)
      BY <2>4 DEF E!InCriticalSection, E!Truncate, E!Write
    <3>2. \A q \in Procs \ {p} : stage[q] # "loaded"
      BY <3>1, OneWriter
    <3>3. stage'[p] # "loaded" /\ \A q \in Procs \ {p} : stage'[q] = stage[q]
      BY <2>4 DEF E!Truncate, E!Write
    <3>4. \A q \in Procs : stage'[q] # "loaded"
      BY <3>2, <3>3
    <3>5. req' = req /\ \A q \in Procs : E!InCriticalSection(q)' => E!InCriticalSection(q)
      BY <2>4, <3>1, <3>3 DEF E!Truncate, E!Write, E!InCriticalSection
    <3>6. QED
      BY <3>4, <3>5 DEF LogFits, LoadedFits
  <2>5. CASE E!Release(p)
    BY <2>5 DEF LogFits, LoadedFits, E!InCriticalSection, E!Release
  <2>6. QED
    BY <2>1, <2>2, <2>3, <2>4, <2>5 DEF E!LogStep
<1>3. QED
  BY <1>1, <1>2 DEF LogFits

(***************************************************************************)
(* The log after a step: only emptying the file changes it.                *)
(***************************************************************************)
LEMMA LogStepEffect ==
    ASSUME LogFits, NEW p \in Procs, E!LogStep(p)
    PROVE  Current' = IF stage[p] = "loaded"
                      THEN IF req[p] \in Additions
                           THEN Apply(req[p], Current) ELSE EmptyLog
                      ELSE Current
<1>1. LogFits'
  BY LogStepFits
<1>2. CASE E!Truncate(p)
  <2>1. stage[p] = "loaded"
    BY <1>2 DEF E!Truncate
  <2>2. QED
    BY <1>1, <1>2, <2>1, E!TruncateEffect, Assumptions, SameData DEF LogFits, Current
<1>3. CASE E!Write(p)
  <2>1. stage[p] # "loaded"
    BY <1>3 DEF E!Write
  <2>2. QED
    BY <1>1, <1>3, <2>1, E!WriteRefines, Assumptions DEF LogFits, Current
<1>4. CASE ~E!Truncate(p) /\ ~E!Write(p)
  <2>1. stage[p] # "loaded"
    BY <1>4 DEF E!LogStep, E!ReadUnlocked, E!Acquire, E!Load, E!LoadFails, E!New,
                E!Exists, E!Release
  <2>2. QED
    BY <1>1, <1>4, <2>1, E!OtherStepsRefine, Assumptions DEF LogFits, Current, E!LogStep
<1>5. QED
  BY <1>2, <1>3, <1>4

\* No step of an operation loses the log; only a clear brings a file back.
LEMMA LogStepDamage ==
    ASSUME LogFits, NEW p \in Procs, E!LogStep(p)
    PROVE  /\ Gone' => Gone
           /\ Gone /\ ~Gone' => stage[p] = "loaded" /\ req[p] = E!Wipe
<1> USE LogTypes
<1>1. CASE E!Truncate(p)
  <2>1. stage[p] = "loaded" /\ stage'[p] = "truncated"
    BY <1>1 DEF E!Truncate
  <2>2. ~Gone'
    BY <2>1 DEF Gone
  <2>3. Gone => req[p] = E!Wipe
    <3>1. req[p] # E!Read /\ (req[p] \in Additions => file.state = "whole")
            /\ (req[p] = E!Create => file = E!Absent)
      BY <2>1, SameOperations DEF LogFits, LoadedFits, E!InCriticalSection
    <3>2. Gone => req[p] \notin Additions /\ req[p] # E!Create
      BY <3>1 DEF Gone, E!Absent
    <3>3. QED
      BY <3>1, <3>2, EntryFacts, CommentFacts DEF Requested, E!Wipe
  <2>4. QED
    BY <2>1, <2>2, <2>3
<1>2. CASE E!Write(p)
  BY <1>2 DEF E!Write, E!Whole, Gone
<1>3. CASE ~E!Truncate(p) /\ ~E!Write(p)
  <2>1. /\ file' = file /\ stage[p] # "truncated" /\ stage'[p] # "truncated"
    BY <1>3 DEF E!LogStep, E!ReadUnlocked, E!Acquire, E!Load, E!LoadFails, E!New,
                E!Exists, E!Release
  <2>2. \A q \in Procs \ {p} : stage'[q] = stage[q]
    BY LogStepFacts
  <2>3. Gone' <=> Gone
    BY <2>1, <2>2 DEF Gone
  <2>4. QED
    BY <2>3
<1>4. QED
  BY <1>1, <1>2, <1>3

\* A process that cannot load the log has found what a dead one left.
LEMMA LoadFailsDamage ==
    ASSUME LogFits, NEW p \in Procs, E!LoadFails(p), file.state # "absent"
    PROVE  Gone'
<1>1. /\ stage[p] = "locked" /\ file.state = "torn" /\ file' = file
      /\ stage'[p] = "raised"
  BY LogTypes DEF E!LoadFails
<1>2. \A q \in Procs \ {p} : stage'[q] = stage[q] /\ stage[q] # "truncated"
  BY <1>1, OneWriter, LogTypes DEF E!LoadFails, E!InCriticalSection
<1>3. QED
  BY <1>1, <1>2 DEF Gone

\* The death of a process.
LEMMA KillFacts ==
    ASSUME LogFits, NEW p \in Procs, L!Kill(p)
    PROVE  /\ LogFits'
           /\ Current' = IF stage[p] = "truncated" THEN EmptyLog ELSE Current
           /\ stage' = [stage EXCEPT ![p] = "idle"]
           /\ file' = file
           /\ \A q \in Procs \ {p} : req'[q] = req[q] /\ snap'[q] = snap[q]
           /\ Gone => Gone'
           /\ stage[p] = "truncated" => Gone'
<1> USE LogTypes
<1>1. E!Kill(p)
  BY SameOperations
<1>2. E!IInv'
  BY <1>1, E!KillInv, Assumptions DEF LogFits
<1>3. /\ stage' = [stage EXCEPT ![p] = "idle"]
      /\ file' = file
      /\ \A q \in Procs \ {p} : req'[q] = req[q] /\ snap'[q] = snap[q]
  BY <1>1 DEF E!Kill
<1>4. Current' = IF stage[p] = "truncated" THEN EmptyLog ELSE Current
  BY <1>1, <1>2, E!KillEffect, Assumptions, SameData DEF LogFits, Current
<1>5. LoadedFits'
  BY <1>3 DEF LogFits, LoadedFits, E!InCriticalSection
<1>6. Gone => Gone'
  BY <1>3 DEF Gone
<1>7. stage[p] = "truncated" => Gone'
  <2> SUFFICES ASSUME stage[p] = "truncated" PROVE Gone'
    OBVIOUS
  <2>1. file.state = "torn"
    BY DEF LogFits, E!IInv, E!TornByWriter, E!Torn
  <2>2. \A q \in Procs \ {p} : stage[q] # "truncated"
    BY OneWriter DEF E!InCriticalSection
  <2>3. QED
    BY <1>3, <2>1, <2>2 DEF Gone
<1>8. QED
  BY <1>2, <1>3, <1>4, <1>5, <1>6, <1>7 DEF LogFits

-----------------------------------------------------------------------------
(***************************************************************************)
(* The accounts, after the steps that do not settle anything.              *)
(***************************************************************************)
\* The session as the proofs of the steps see it.
LEMMA Members ==
    /\ Ctl \in Procs /\ Ctl \notin Workers
    /\ \A w \in Workers : w \in Procs /\ w # Ctl
BY CtlIsNoWorker DEF Procs

LEMMA InHandType ==
    ASSUME NEW w, NEW kind
    PROVE  InHand(w, kind) \in {0, 1} /\ InHand(w, kind)' \in {0, 1}
BY DEF InHand

\* All numbers in the accounts of a test.
LEMMA AccountTypes ==
    ASSUME LogFits, TypeOK, NEW t \in Tests
    PROVE  /\ InFailures(Current, t) \in Nat /\ InErrors(Current, t) \in Nat
           /\ InFailures(Before, t) \in Nat /\ InErrors(Before, t) \in Nat
           /\ FailedCalls(t) \in Nat /\ FailedFixtures(t) \in Nat
           /\ FailedCalls(t) = Calls(reports[t])
           /\ FailedFixtures(t) = Fixtures(reports[t])
<1>1. Before \in Logs
  BY E!EmptyLogType, Assumptions, SameData DEF Before, TypeOK
<1>2. Current \in Logs
  BY LogTypes
<1>3. FailedCalls(t) = Calls(reports[t]) /\ FailedFixtures(t) = Fixtures(reports[t])
  BY DEF FailedCalls, FailedFixtures, Calls, Fixtures
<1>4. reports[t] \in SUBSET Phases
  BY DEF TypeOK
<1>5. QED
  BY <1>1, <1>2, <1>3, <1>4, CountsType, PhaseCounts

\* No test is in the log more or less often than before the step.
SameCounts ==
    \A t \in Tests : /\ InFailures(Current, t)' = InFailures(Current, t)
                     /\ InErrors(Current, t)' = InErrors(Current, t)

\* What a worker still has to record stays the same, or shrinks with the claim.
LEMMA RestKept ==
    ASSUME TypeOK, LogFits, SameCounts, UNCHANGED <<keep, found, reports>>,
           Undamaged' => Undamaged,
           NEW w \in Workers, NEW phases \in SUBSET Phases, Rest(w, phases),
           running[w] \in Tests, running'[w] = running[w], owed'[w] = owed[w],
           \A kind \in {"failures", "errors"} :
               /\ InHand(w, kind)' <= InHand(w, kind)
               /\ Undamaged' => InHand(w, kind)' = InHand(w, kind)
    PROVE  Rest(w, phases)'
<1> DEFINE t == running[w]
           f == InHand(w, "failures")
           e == InHand(w, "errors")
<1>1. Before' = Before
  BY DEF Before
<1>2. FailedCalls(t)' = FailedCalls(t) /\ FailedFixtures(t)' = FailedFixtures(t)
  BY DEF FailedCalls, FailedFixtures
<1>3. /\ InFailures(Current, t)' = InFailures(Current, t)
      /\ InErrors(Current, t)' = InErrors(Current, t)
      /\ InFailures(Before, t)' = InFailures(Before, t)
      /\ InErrors(Before, t)' = InErrors(Before, t)
  BY <1>1 DEF SameCounts
<1>4. /\ InFailures(Current, t) \in Nat /\ InErrors(Current, t) \in Nat
      /\ InFailures(Before, t) \in Nat /\ InErrors(Before, t) \in Nat
      /\ FailedCalls(t) \in Nat /\ FailedFixtures(t) \in Nat
  BY AccountTypes
<1>5. Calls(phases) \in Nat /\ Fixtures(phases) \in Nat
  BY PhaseCounts
<1>6. f \in Nat /\ e \in Nat /\ f' \in Nat /\ e' \in Nat
  BY InHandType
<1>7. f' <= f /\ e' <= e /\ (Undamaged' => f' = f /\ e' = e)
  OBVIOUS
<1>8. owed'[w] = EntriesOf(t, phases)
  BY DEF Rest
<1>9. AtMost(t, Calls(phases) + f, Fixtures(phases) + e)
        /\ (Undamaged => Balanced(t, Calls(phases) + f, Fixtures(phases) + e))
  BY DEF Rest
<1> HIDE DEF f, e
<1>10. AtMost(t, Calls(phases) + f, Fixtures(phases) + e)'
  BY <1>2, <1>3, <1>4, <1>5, <1>6, <1>7, <1>9 DEF AtMost
<1>11. Undamaged' => Balanced(t, Calls(phases) + f, Fixtures(phases) + e)'
  BY <1>2, <1>3, <1>7, <1>9 DEF Balanced
<1>12. QED
  BY <1>8, <1>10, <1>11 DEF Rest, f, e

\* A set of lost tests that has not grown is still small enough.
LEMMA FewStayFew ==
    ASSUME FewAreLost, TypeOK, Lost' \subseteq Lost, crashes' = crashes
    PROVE  FewAreLost'
<1>1. IsFiniteSet(Lost') /\ Cardinality(Lost') <= Cardinality(Lost)
  BY FS_Subset DEF FewAreLost
<1>2. Cardinality(Lost) \in Nat /\ Cardinality(Lost') \in Nat
  BY <1>1, FS_CardinalityType DEF FewAreLost
<1>3. QED
  BY <1>1, <1>2 DEF FewAreLost, TypeOK

LEMMA SameAccounts ==
    ASSUME Accounts, TypeOK, LogFits, LogFits',
           UNCHANGED <<keep, found, todo, running, owed, reports, scheduled, crashes>>,
           SameCounts, Undamaged' => Undamaged,
           \A w \in Workers : pc[w] = "recording" => running[w] \in Tests,
           \A w \in Workers : pc[w] = "testing" => running[w] \in Tests,
           \A w \in Workers : pc'[w] = "testing" => pc[w] = "testing",
           \A w \in Workers : pc'[w] = "recording" =>
               /\ pc[w] = "recording"
               /\ \A kind \in {"failures", "errors"} :
                    /\ InHand(w, kind)' <= InHand(w, kind)
                    /\ Undamaged' => InHand(w, kind)' = InHand(w, kind)
    PROVE  Accounts'
<1> SUFFICES ASSUME scheduled PROVE Accounts'
  BY DEF Accounts
<1>1. Before' = Before
  BY DEF Before
<1>2. \A t \in Tests : FailedCalls(t)' = FailedCalls(t) /\ FailedFixtures(t)' = FailedFixtures(t)
  BY DEF FailedCalls, FailedFixtures
<1>4. \A t \in Tests : AtMost(t, 0, 0) => AtMost(t, 0, 0)'
  BY <1>1, <1>2 DEF AtMost, SameCounts
<1>5. \A t \in Tests : Balanced(t, 0, 0) => Balanced(t, 0, 0)'
  BY <1>1, <1>2 DEF Balanced, SameCounts
<1>6. \A t \in Tests : Exact(Current, t) => Exact(Current, t)'
  BY <1>1, <1>2 DEF Exact, SameCounts
<1>7. NothingTooMuch'
  BY <1>4 DEF Accounts, NothingTooMuch
<1>8. RestsFit'
  <2> SUFFICES ASSUME NEW w \in Workers, pc'[w] = "recording"
               PROVE  \E phases \in SUBSET Phases : Rest(w, phases)'
    BY DEF RestsFit
  <2>1. PICK phases \in SUBSET Phases : Rest(w, phases)
    BY DEF Accounts, RestsFit
  <2>2. Rest(w, phases)'
    BY <2>1, RestKept
  <2>3. QED
    BY <2>2
<1>9. Undamaged' => OpenTestsBalanced'
  BY <1>5 DEF Accounts, OpenTestsBalanced, TypeOK
<1>10. Undamaged' => FewAreLost'
  <2>1. Lost' \subseteq Lost
    BY <1>6 DEF Lost
  <2>2. QED
    BY <2>1, FewStayFew DEF Accounts
<1>11. QED
  BY <1>7, <1>8, <1>9, <1>10 DEF Accounts

-----------------------------------------------------------------------------
(***************************************************************************)
(* A step of the log, made by the controller or by a worker.               *)
(***************************************************************************)
\* Who can be in an operation, and in which.
LEMMA WorkerInOperation ==
    ASSUME IInv, NEW w \in Workers, ~E!Idle(w)
    PROVE  /\ pc[w] \in {"import", "collecting", "recording"}
           /\ pc[w] = "import" => req[w] = E!Create
           /\ pc[w] = "collecting" => req[w] = E!Wipe /\ ~keep
           /\ pc[w] = "recording" => /\ running[w] \in Tests
                                     /\ \E phase \in Phases : req[w] = EntryOf(running[w], phase)
           /\ pc[Ctl] = "session" /\ E!Idle(Ctl)
           /\ file.state # "absent"
<1>1. WorkerFits(w) /\ w \in Procs
  BY Members DEF IInv, WorkersFit
<1>2. /\ pc[w] \in {"import", "collecting", "recording"}
      /\ pc[w] = "import" => req[w] = E!Create
      /\ pc[w] = "collecting" => req[w] = E!Wipe /\ ~keep
      /\ pc[w] = "recording" => /\ running[w] \in Tests
                                /\ \E phase \in Phases : req[w] = EntryOf(running[w], phase)
  BY <1>1, SameOperations DEF WorkerFits, WorkerPlaces
<1>3. pc[Ctl] = "session" /\ E!Idle(Ctl)
  <2>1. CASE scheduled
    <3>1. pc[Ctl] = "session"
      BY <1>2, <2>1 DEF IInv, SessionFits
    <3>2. QED
      BY <2>1, <3>1, SameOperations, Members DEF IInv, CtlFits
  <2>2. CASE ~scheduled
    BY <1>2, <2>2, SameOperations, Members DEF IInv, SessionFits
  <2>3. QED
    BY <2>1, <2>2
<1>4. file.state # "absent"
  BY <1>3 DEF IInv, FileExists
<1>5. QED
  BY <1>2, <1>3, <1>4

LEMMA CtlInOperation ==
    ASSUME IInv, ~E!Idle(Ctl)
    PROVE  /\ pc[Ctl] \in {"command", "session", "checking", "exiting", "notifying"}
           /\ pc[Ctl] = "command" => req[Ctl] = E!Create /\ ~scheduled
           /\ pc[Ctl] = "session" => req[Ctl] = E!Wipe /\ ~keep /\ ~scheduled
           /\ pc[Ctl] \in {"checking", "notifying"} => req[Ctl] = E!Read
           /\ pc[Ctl] = "exiting" => req[Ctl] = Comment
           /\ \A w \in Workers : E!Idle(w)
<1>1. CtlFits /\ Ctl \in Procs
  BY Members DEF IInv
<1>2. /\ pc[Ctl] \in {"command", "session", "checking", "exiting", "notifying"}
      /\ pc[Ctl] = "command" => req[Ctl] = E!Create
      /\ pc[Ctl] = "session" => req[Ctl] = E!Wipe /\ ~keep /\ ~scheduled
      /\ pc[Ctl] \in {"checking", "notifying"} => req[Ctl] = E!Read
      /\ pc[Ctl] = "exiting" => req[Ctl] = Comment
  BY <1>1, SameOperations DEF CtlFits, CtlPlaces, E!Idle
<1>3. pc[Ctl] = "command" => ~scheduled
  BY DEF IInv, SessionFits
<1>4. \A w \in Workers : E!Idle(w)
  BY WorkerInOperation
<1>5. QED
  BY <1>2, <1>3, <1>4

\* The log is not damaged less after a step of an operation than before it.
LEMMA LogStepUndamaged ==
    ASSUME IInv, NEW p \in Procs, E!LogStep(p), UNCHANGED <<keep, crashes>>
    PROVE  /\ Undamaged' => Undamaged
           /\ crashes' = 0 => ~Gone'
<1>1. (Gone' => Gone) /\ (Gone /\ ~Gone' => req[p] = E!Wipe)
  BY LogStepDamage DEF IInv
<1>2. crashes = 0 => ~Gone
  BY DEF IInv, SessionFits
<1>3. req[p] = E!Wipe => ~keep
  <2>1. ~E!Idle(p)
    BY LogStepFacts DEF IInv
  <2>2. CASE p = Ctl
    BY <2>1, <2>2, CtlInOperation, RequestKinds, CommentFacts
  <2>3. CASE p \in Workers
    BY <2>1, <2>3, WorkerInOperation, RequestKinds, EntryFacts
  <2>4. QED
    BY <2>2, <2>3 DEF Procs
<1>4. QED
  BY <1>1, <1>2, <1>3 DEF Undamaged

LEMMA LogStepFileExists ==
    ASSUME IInv, NEW p \in Procs, E!LogStep(p), UNCHANGED sessionVars
    PROVE  FileExists'
<1> SUFFICES ASSUME file'.state = "absent", pc[Ctl] # "start"
             PROVE  pc[Ctl] = "command" /\ stage'[Ctl] \in {"waiting", "locked", "loaded"}
  BY DEF FileExists, sessionVars
<1>1. file' = file /\ file.state = "absent"
  BY LogStepFacts DEF IInv
<1>2. pc[Ctl] = "command" /\ stage[Ctl] \in {"waiting", "locked", "loaded"}
  BY <1>1 DEF IInv, FileExists
<1>3. CASE p # Ctl
  BY <1>2, <1>3, LogStepFacts, Members DEF IInv
<1>4. CASE p = Ctl
  <2>1. req[Ctl] = E!Create /\ req[Ctl] # E!Read /\ req[Ctl] \notin Additions
    BY <1>2, RequestKinds, SameOperations DEF IInv, CtlFits
  <2>2. E!Acquire(Ctl) \/ E!New(Ctl)
    BY <1>1, <1>2, <1>4, <2>1, SameData
       DEF E!LogStep, E!ReadUnlocked, E!Load, E!LoadFails, E!Exists, E!Truncate, E!Write,
           E!Release, E!Torn
  <2>3. stage \in [Procs -> E!Stages]
    BY LogTypes DEF IInv
  <2>4. QED
    BY <1>2, <2>2, <2>3, Members DEF E!Acquire, E!New
<1>5. QED
  BY <1>3, <1>4

\* A worker raises an exception only when the log is lost.
LEMMA WorkerRaises ==
    ASSUME IInv, NEW w \in Workers, E!LogStep(w), stage'[w] = "raised"
    PROVE  pc[w] = "recording" /\ Gone'
<1>1. ~E!Idle(w) /\ w \in Procs
  BY LogStepFacts, Members DEF IInv
<1>2. req[w] # E!Read
  BY <1>1, WorkerInOperation, RequestKinds, EntryFacts
<1>3. E!LoadFails(w)
  BY <1>1, <1>2, LogTypes
     DEF IInv, E!LogStep, E!ReadUnlocked, E!Acquire, E!Load, E!New, E!Exists,
         E!Truncate, E!Write, E!Release
<1>4. req[w] \in Additions
  BY <1>3, SameData DEF E!LoadFails
<1>5. QED
  BY <1>1, <1>3, <1>4, WorkerInOperation, RequestKinds, LoadFailsDamage DEF IInv

LEMMA LogStepPlaces ==
    ASSUME IInv, NEW p \in Procs, E!LogStep(p), UNCHANGED sessionVars
    PROVE  CtlFits' /\ WorkersFit' /\ SessionFits' /\ TestsFit'
<1>1. /\ ~E!Idle(p) /\ req' = req
      /\ \A q \in Procs \ {p} : stage'[q] = stage[q]
  BY LogStepFacts DEF IInv
<1>2. \A q \in Procs : E!Idle(q) => E!Idle(q)' /\ stage'[q] = stage[q]
  BY <1>1 DEF E!Idle
<1>3. (Undamaged' => Undamaged) /\ (crashes' = 0 => ~Gone')
  BY LogStepUndamaged DEF sessionVars
<1>4. CtlFits'
  <2>1. CtlFits /\ Ctl \in Procs /\ pc' = pc /\ keep' = keep /\ scheduled' = scheduled
    BY Members DEF IInv, sessionVars
  <2>2. L!Idle(Ctl) => L!Idle(Ctl)' /\ stage'[Ctl] = stage[Ctl]
    BY <1>2, <2>1 DEF E!Idle, L!Idle
  <2>3. stage[Ctl] = "idle" => L!Idle(Ctl)
    BY DEF L!Idle
  <2>4. stage[Ctl] # "idle" => stage'[Ctl] # "idle"
    BY <2>1, LogStepFacts DEF IInv
  <2>5. QED
    BY <1>1, <2>1, <2>2, <2>3, <2>4 DEF CtlFits, L!Create, L!Wipe, L!Read, Comment
<1>5. WorkersFit'
  <2> SUFFICES ASSUME NEW w \in Workers PROVE WorkerFits(w)'
    BY DEF WorkersFit, sessionVars
  <2>1. WorkerFits(w) /\ w \in Procs /\ pc' = pc /\ keep' = keep /\ running' = running
    BY Members DEF IInv, WorkersFit, sessionVars
  <2>2. L!Idle(w) => L!Idle(w)'
    BY <1>2, <2>1 DEF E!Idle, L!Idle
  <2>3. stage'[w] = "raised" => pc'[w] \in {"recording", "broken"} /\ ~Undamaged'
    <3>1. CASE p = w
      BY <2>1, <3>1, WorkerRaises DEF Undamaged
    <3>2. CASE p # w
      BY <1>1, <1>3, <2>1, <3>2 DEF WorkerFits
    <3>3. QED
      BY <3>1, <3>2
  <2>4. pc'[w] = "broken" => stage'[w] = "raised"
    BY <1>2, <2>1 DEF WorkerFits, E!Idle, L!Idle
  <2>5. QED
    BY <1>1, <2>1, <2>2, <2>3, <2>4 DEF WorkerFits, L!Create, L!Wipe
<1>6. SessionFits'
  <2>1. SessionFits /\ Ctl \in Procs /\ UNCHANGED <<pc, scheduled, crashes, reports>>
    BY Members DEF IInv, sessionVars
  <2>2. L!Idle(Ctl) => L!Idle(Ctl)'
    BY <1>2, <2>1 DEF E!Idle, L!Idle
  <2>3. QED
    BY <1>3, <2>1, <2>2 DEF SessionFits
<1>7. TestsFit'
  BY DEF IInv, TestsFit, sessionVars
<1>8. QED
  BY <1>4, <1>5, <1>6, <1>7

\* Before the tests are handed out nobody adds to the log.
LEMMA LogStepStart ==
    ASSUME IInv, NEW p \in Procs, E!LogStep(p), UNCHANGED sessionVars
    PROVE  StartFits'
<1> SUFFICES ASSUME ~scheduled, pc[Ctl] \in {"start", "command", "session"}
             PROVE  /\ keep => Current' = found
                    /\ ~keep /\ pc[Ctl] = "session"
                         /\ (L!Idle(Ctl)' \/ stage'[Ctl] \in {"truncated", "written"})
                       => Current' = EmptyLog
  BY DEF StartFits, sessionVars
<1>1. /\ ~E!Idle(p) /\ req' = req
      /\ \A q \in Procs \ {p} : stage'[q] = stage[q]
  BY LogStepFacts DEF IInv
<1>2. /\ req[p] \in {E!Create, E!Wipe} /\ req[p] \notin Additions
      /\ keep => req[p] = E!Create
  <2>1. CASE p = Ctl
    BY <1>1, <2>1, CtlInOperation, RequestKinds
  <2>2. CASE p \in Workers
    <3>1. pc[p] # "recording"
      BY <2>2 DEF IInv, SessionFits
    <3>2. QED
      BY <1>1, <2>2, <3>1, WorkerInOperation, RequestKinds
  <2>3. QED
    BY <2>1, <2>2 DEF Procs
<1>3. Current' = IF stage[p] = "loaded" THEN EmptyLog ELSE Current
  BY <1>2, LogStepEffect DEF IInv
<1>4. stage[p] = "loaded" /\ req[p] = E!Create => Current = EmptyLog
  <2> SUFFICES ASSUME stage[p] = "loaded", req[p] = E!Create PROVE Current = EmptyLog
    OBVIOUS
  <2>1. file = E!Absent
    BY SameOperations DEF IInv, LogFits, LoadedFits
  <2>2. \A q \in Procs : stage[q] # "truncated"
    BY OneWriter DEF IInv, E!InCriticalSection
  <2>3. Current = file.log
    BY <2>2, E!LogOfFile, Assumptions DEF Current
  <2>4. QED
    BY <2>1, <2>3, SameData DEF E!Absent
<1>5. keep => Current' = found
  BY <1>2, <1>3, <1>4 DEF IInv, StartFits
<1>6. ASSUME ~keep, pc[Ctl] = "session",
             L!Idle(Ctl)' \/ stage'[Ctl] \in {"truncated", "written"}
      PROVE  Current' = EmptyLog
  <2>1. CASE p = Ctl
    <3>1. req[Ctl] = E!Wipe /\ req[Ctl] # E!Create /\ req[Ctl] # E!Read
            /\ req[Ctl] \notin Additions
      BY <1>1, <1>6, <2>1, CtlInOperation, RequestKinds
    <3>2. E!Truncate(Ctl) \/ E!Write(Ctl) \/ E!Release(Ctl)
      <4>1. stage \in [Procs -> E!Stages] /\ Ctl \in Procs
        BY LogTypes, Members DEF IInv
      <4>2. QED
        BY <1>6, <2>1, <3>1, <4>1, SameData
           DEF L!Idle, E!LogStep, E!ReadUnlocked, E!Acquire, E!Load, E!LoadFails, E!New,
               E!Exists
    <3>3. stage[Ctl] \in {"loaded", "truncated", "written"}
      BY <3>2 DEF E!Truncate, E!Write, E!Release
    <3>4. QED
      BY <1>3, <1>6, <2>1, <3>3 DEF IInv, StartFits
  <2>2. CASE p \in Workers
    <3>1. E!Idle(Ctl)
      BY <1>1, <2>2, WorkerInOperation
    <3>2. Current = EmptyLog
      BY <1>6, <3>1, SameOperations, Members DEF IInv, StartFits
    <3>3. QED
      BY <1>3, <3>2
  <2>3. QED
    BY <2>1, <2>2 DEF Procs
<1>7. QED
  BY <1>5, <1>6

\* What is read for the notification is what the log is.
LEMMA LogStepNotice ==
    ASSUME IInv, NEW p \in Procs, E!LogStep(p), UNCHANGED sessionVars
    PROVE  NoticeFits'
<1>1. ~E!Idle(p) /\ req' = req
  BY LogStepFacts DEF IInv
<1>2. CASE p \in Workers
  <2>1. pc[Ctl] = "session"
    BY <1>1, <1>2, WorkerInOperation
  <2>2. QED
    BY <2>1 DEF IInv, NoticeFits, sessionVars
<1>3. CASE p = Ctl
  <2>1. pc[Ctl] # "notified"
    BY <1>1, <1>3, CtlInOperation
  <2>2. ~notice.sent
    BY <2>1 DEF IInv, NoticeFits
  <2>3. ASSUME pc[Ctl] = "notifying", stage'[Ctl] = "returned"
        PROVE  file'.state = "whole" /\ snap'[Ctl] = file'.log
    <3>1. req[Ctl] = E!Read
      BY <1>1, <1>3, <2>3, CtlInOperation
    <3>2. ~E!InCriticalSection(Ctl)
      BY <3>1, Members, SameOperations DEF IInv, LogFits, LoadedFits
    <3>3. stage \in [Procs -> E!Stages] /\ snap \in [Procs -> Logs] /\ Ctl \in Procs
      BY LogTypes, Members DEF IInv
    <3>4. E!ReadUnlocked(Ctl)
      BY <1>3, <3>1, <3>2
         DEF E!LogStep, E!InCriticalSection, E!Acquire, E!Load, E!LoadFails, E!New,
             E!Exists, E!Truncate, E!Write, E!Release
    <3>5. QED
      BY <2>3, <3>3, <3>4 DEF E!ReadUnlocked
  <2>4. QED
    BY <2>2, <2>3 DEF NoticeFits, sessionVars
<1>4. QED
  BY <1>2, <1>3 DEF Procs

(***************************************************************************)
(* The accounts, after a step of the log.                                  *)
(***************************************************************************)
\* A test that a worker is recording has its place in the accounts.
LEMMA Recording ==
    ASSUME IInv, NEW w \in Workers, pc[w] = "recording"
    PROVE  running[w] \in Tests
BY DEF IInv, WorkersFit, WorkerFits

LEMMA Testing ==
    ASSUME IInv, NEW w \in Workers, pc[w] = "testing"
    PROVE  running[w] \in Tests
BY DEF IInv, WorkersFit, WorkerFits

LEMMA CtlLogStepAccounts ==
    ASSUME IInv, E!LogStep(Ctl), UNCHANGED sessionVars
    PROVE  Accounts'
<1> SUFFICES ASSUME scheduled PROVE Accounts'
  BY DEF Accounts, sessionVars
<1>1. /\ ~E!Idle(Ctl) /\ req' = req /\ Ctl \in Procs
      /\ \A q \in Procs \ {Ctl} : stage'[q] = stage[q]
  BY LogStepFacts, Members DEF IInv
<1>2. LogFits'
  BY <1>1, LogStepFits DEF IInv
<1>3. SameCounts
  <2>1. CASE stage[Ctl] # "loaded"
    <3>1. Current' = Current
      BY <1>1, <2>1, LogStepEffect DEF IInv
    <3>2. QED
      BY <3>1 DEF SameCounts, InFailures, InErrors
  <2>2. CASE stage[Ctl] = "loaded"
    <3>1. req[Ctl] # E!Read
      BY <1>1, <2>2, SameOperations DEF IInv, LogFits, LoadedFits, E!InCriticalSection
    <3>2. req[Ctl] = Comment
      BY <1>1, <3>1, CtlInOperation
    <3>3. Current' = Apply(Comment, Current)
      BY <1>1, <2>2, <3>2, LogStepEffect, CommentFacts DEF IInv
    <3>4. Current \in Logs
      BY LogTypes DEF IInv
    <3>5. \A t : /\ InFailures(Apply(Comment, Current), t) = InFailures(Current, t)
                 /\ InErrors(Apply(Comment, Current), t) = InErrors(Current, t)
      BY <3>4, CommentCounts
    <3>6. QED
      BY <3>3, <3>5 DEF SameCounts, InFailures, InErrors
  <2>3. QED
    BY <2>1, <2>2
<1>4. Undamaged' => Undamaged
  BY <1>1, LogStepUndamaged DEF sessionVars
<1>5. \A w \in Workers, kind \in {"failures", "errors"} :
          InHand(w, kind)' = InHand(w, kind) /\ InHand(w, kind) \in {0, 1}
  BY <1>1, Members, InHandType DEF InHand
<1>6. QED
  BY <1>2, <1>3, <1>4, <1>5, SameAccounts, Recording, Testing DEF IInv, sessionVars

\* Whoever clears or loses the log, it then holds less than it may.
LEMMA ClearedAccounts ==
    ASSUME IInv, LogFits', scheduled, Current' = EmptyLog, ~Undamaged',
           UNCHANGED <<keep, found, reports, scheduled>>,
           \A w \in Workers : pc'[w] = "recording" =>
               /\ pc[w] = "recording" /\ running'[w] = running[w] /\ owed'[w] = owed[w]
               /\ \A kind \in {"failures", "errors"} : InHand(w, kind)' = InHand(w, kind)
    PROVE  Accounts'
<1>1. \A t \in Tests : InFailures(Current, t)' = 0 /\ InErrors(Current, t)' = 0
  <2>1. \A t : InFailures(EmptyLog, t) = 0 /\ InErrors(EmptyLog, t) = 0
    BY EmptyCounts
  <2>2. QED
    BY <2>1 DEF InFailures, InErrors
<1>2. Before' = Before
  BY DEF Before
<1>3. \A t \in Tests : FailedCalls(t)' = FailedCalls(t) /\ FailedFixtures(t)' = FailedFixtures(t)
  BY DEF FailedCalls, FailedFixtures
<1>4. \A t \in Tests : /\ InFailures(Before, t)' = InFailures(Before, t)
                       /\ InErrors(Before, t)' = InErrors(Before, t)
  BY <1>2
<1>5. ASSUME NEW t \in Tests, NEW f \in Nat, NEW e \in Nat, AtMost(t, f, e)
      PROVE  AtMost(t, f, e)'
  <2>1. /\ InFailures(Current, t) \in Nat /\ InErrors(Current, t) \in Nat
        /\ InFailures(Before, t) \in Nat /\ InErrors(Before, t) \in Nat
        /\ FailedCalls(t) \in Nat /\ FailedFixtures(t) \in Nat
    BY AccountTypes DEF IInv
  <2>2. QED
    BY <1>1, <1>3, <1>4, <1>5, <2>1 DEF AtMost
<1>6. NothingTooMuch'
  BY <1>5 DEF NothingTooMuch, IInv, Accounts
<1>7. RestsFit'
  <2> SUFFICES ASSUME NEW w \in Workers, pc'[w] = "recording"
               PROVE  \E phases \in SUBSET Phases : Rest(w, phases)'
    BY DEF RestsFit
  <2>1. PICK phases \in SUBSET Phases : Rest(w, phases)
    BY DEF IInv, Accounts, RestsFit
  <2>9. running'[w] = running[w] /\ owed'[w] = owed[w]
    OBVIOUS
  <2> DEFINE f == Calls(phases) + InHand(w, "failures")
             e == Fixtures(phases) + InHand(w, "errors")
  <2>2. running[w] \in Tests /\ f \in Nat /\ e \in Nat
    BY Recording, PhaseCounts, InHandType
  <2>3. f' = f /\ e' = e
    OBVIOUS
  <2>4. AtMost(running[w], f, e) /\ owed[w] = EntriesOf(running[w], phases)
    BY <2>1 DEF Rest
  <2> HIDE DEF f, e
  <2>5. AtMost(running[w], f, e)'
    BY <1>5, <2>2, <2>3, <2>4, <2>9 DEF AtMost
  <2>6. Rest(w, phases)'
    BY <2>4, <2>5, <2>9 DEF Rest, f, e
  <2>7. QED
    BY <2>6
<1>8. QED
  BY <1>6, <1>7 DEF Accounts

(***************************************************************************)
(* An entry gets into the log: what the worker had in hand is settled.     *)
(***************************************************************************)
LEMMA EntryAccounts ==
    ASSUME IInv, LogFits', scheduled, Undamaged' => Undamaged,
           UNCHANGED <<keep, found, todo, running, owed, reports, scheduled, crashes, pc>>,
           NEW w \in Workers, pc[w] = "recording",
           NEW t \in Tests, running[w] = t, NEW phase \in Phases,
           stage[w] = "loaded", stage'[w] = "truncated",
           req' = req, req[w] = EntryOf(t, phase),
           \A v \in Workers \ {w} : stage'[v] = stage[v],
           Current' = Apply(EntryOf(t, phase), Current)
    PROVE  Accounts'
<1> DEFINE one == IF phase = "call" THEN 1 ELSE 0
           two == IF phase # "call" THEN 1 ELSE 0
<1>1. Current \in Logs
  BY LogTypes DEF IInv
<1>2. ASSUME NEW s \in Tests
      PROVE  /\ InFailures(Current, s)' = InFailures(Current, s) + (IF s = t THEN one ELSE 0)
             /\ InErrors(Current, s)' = InErrors(Current, s) + (IF s = t THEN two ELSE 0)
  <2> DEFINE m == Apply(EntryOf(t, phase), Current)
  <2>1. /\ InFailures(m, s) = InFailures(Current, s)
             + (IF s = t /\ phase = "call" THEN 1 ELSE 0)
        /\ InErrors(m, s) = InErrors(Current, s)
             + (IF s = t /\ phase # "call" THEN 1 ELSE 0)
    BY <1>1, EntryCounts
  <2>2. InFailures(Current, s)' = InFailures(m, s) /\ InErrors(Current, s)' = InErrors(m, s)
    BY DEF InFailures, InErrors
  <2>3. QED
    BY <2>1, <2>2
<1>3. /\ InHand(w, "failures") = one /\ InHand(w, "errors") = two
      /\ InHand(w, "failures")' = 0 /\ InHand(w, "errors")' = 0
  BY <1>1, EntryFacts DEF InHand
<1>4. \A v \in Workers \ {w}, kind \in {"failures", "errors"} :
          InHand(v, kind)' = InHand(v, kind)
  BY DEF InHand
<1>5. \A v \in Workers \ {w} : running[v] # t
  BY <1>1, TestsAreNames DEF IInv, TestsFit
<1>6. t \notin todo
  BY DEF IInv, TestsFit
<1>7. Before' = Before
  BY DEF Before
<1>8. \A s \in Tests : FailedCalls(s)' = FailedCalls(s) /\ FailedFixtures(s)' = FailedFixtures(s)
  BY DEF FailedCalls, FailedFixtures
<1>9. \A s \in Tests : /\ InFailures(Before, s)' = InFailures(Before, s)
                       /\ InErrors(Before, s)' = InErrors(Before, s)
  BY <1>7
<1> HIDE DEF one, two
<1>10. \A s \in Tests \ {t} : \A f, e : /\ AtMost(s, f, e) => AtMost(s, f, e)'
                                        /\ Balanced(s, f, e) => Balanced(s, f, e)'
  <2> SUFFICES ASSUME NEW s \in Tests \ {t}, NEW f, NEW e
               PROVE  /\ AtMost(s, f, e) => AtMost(s, f, e)'
                      /\ Balanced(s, f, e) => Balanced(s, f, e)'
    OBVIOUS
  <2>1. InFailures(Current, s) \in Nat /\ InErrors(Current, s) \in Nat
    BY AccountTypes DEF IInv
  <2>2. InFailures(Current, s)' = InFailures(Current, s)
          /\ InErrors(Current, s)' = InErrors(Current, s)
    BY <1>2, <2>1
  <2>3. QED
    BY <1>8, <1>9, <2>2 DEF AtMost, Balanced
<1>11. /\ InFailures(Current, t) \in Nat /\ InErrors(Current, t) \in Nat
       /\ InFailures(Before, t) \in Nat /\ InErrors(Before, t) \in Nat
       /\ FailedCalls(t) \in Nat /\ FailedFixtures(t) \in Nat
  BY <1>1, AccountTypes DEF IInv
<1>12. one \in Nat /\ two \in Nat
  BY DEF one, two
<1>13. PICK phases \in SUBSET Phases : Rest(w, phases)
  BY DEF IInv, Accounts, RestsFit
<1>14. Calls(phases) \in Nat /\ Fixtures(phases) \in Nat
  BY PhaseCounts
<1>15. /\ owed[w] = EntriesOf(t, phases)
       /\ AtMost(t, Calls(phases) + one, Fixtures(phases) + two)
       /\ Undamaged => Balanced(t, Calls(phases) + one, Fixtures(phases) + two)
  BY <1>3, <1>13 DEF Rest
<1>16. /\ AtMost(t, Calls(phases), Fixtures(phases))' /\ AtMost(t, 0, 0)'
       /\ Undamaged' => Balanced(t, Calls(phases), Fixtures(phases))'
  <2>1. /\ InFailures(Current, t)' = InFailures(Current, t) + one
        /\ InErrors(Current, t)' = InErrors(Current, t) + two
    BY <1>1, <1>2
  <2>2. /\ FailedCalls(t)' = FailedCalls(t) /\ FailedFixtures(t)' = FailedFixtures(t)
        /\ InFailures(Before, t)' = InFailures(Before, t)
        /\ InErrors(Before, t)' = InErrors(Before, t)
    BY <1>1, <1>8, <1>9
  <2>3. AtMost(t, Calls(phases), Fixtures(phases))'
    BY <1>11, <1>12, <1>14, <1>15, <2>1, <2>2 DEF AtMost
  <2>4. AtMost(t, 0, 0)'
    BY <1>11, <1>12, <1>14, <1>15, <2>1, <2>2 DEF AtMost
  <2>5. Undamaged' => Balanced(t, Calls(phases), Fixtures(phases))'
    BY <1>11, <1>12, <1>14, <1>15, <2>1, <2>2 DEF Balanced
  <2>6. QED
    BY <2>3, <2>4, <2>5
<1>17. NothingTooMuch'
  <2> SUFFICES ASSUME NEW s \in Tests PROVE AtMost(s, 0, 0)'
    BY DEF NothingTooMuch
  <2>1. CASE s = t
    BY <1>16, <2>1
  <2>2. CASE s # t
    <3>1. AtMost(s, 0, 0)
      BY DEF IInv, Accounts, NothingTooMuch
    <3>2. QED
      BY <1>10, <2>2, <3>1
  <2>3. QED
    BY <2>1, <2>2
<1>18. RestsFit'
  <2> SUFFICES ASSUME NEW v \in Workers, pc[v] = "recording"
               PROVE  \E rest \in SUBSET Phases : Rest(v, rest)'
    BY DEF RestsFit
  <2>1. CASE v = w
    <3>1. Calls(phases) + 0 = Calls(phases) /\ Fixtures(phases) + 0 = Fixtures(phases)
      BY <1>14
    <3>2. Rest(w, phases)'
      BY <1>3, <1>15, <1>16, <3>1 DEF Rest
    <3>3. QED
      BY <2>1, <3>2
  <2>2. CASE v # w
    <3>1. PICK rest \in SUBSET Phases : Rest(v, rest)
      BY DEF IInv, Accounts, RestsFit
    <3>2. running[v] \in Tests \ {t}
      BY <1>5, <2>2, Recording
    <3>3. Rest(v, rest)'
      BY <1>4, <1>10, <2>2, <3>1, <3>2 DEF Rest
    <3>4. QED
      BY <3>3
  <2>3. QED
    BY <2>1, <2>2
<1>19. Undamaged' => OpenTestsBalanced'
  <2> SUFFICES ASSUME Undamaged' PROVE OpenTestsBalanced'
    OBVIOUS
  <2>1. OpenTestsBalanced
    BY DEF IInv, Accounts
  <2>2. todo \subseteq Tests \ {t}
    BY <1>6 DEF IInv, TypeOK
  <2>3. \A v \in Workers : pc[v] = "testing" => running[v] \in Tests \ {t}
    BY <1>5, Testing
  <2>4. QED
    BY <1>10, <2>1, <2>2, <2>3 DEF OpenTestsBalanced
<1>20. Undamaged' => FewAreLost'
  <2> SUFFICES ASSUME Undamaged' PROVE FewAreLost'
    OBVIOUS
  <2>1. \A s \in Tests \ {t} : Exact(Current, s) => Exact(Current, s)'
    <3> SUFFICES ASSUME NEW s \in Tests \ {t}, Exact(Current, s) PROVE Exact(Current, s)'
      OBVIOUS
    <3>1. InFailures(Current, s) \in Nat /\ InErrors(Current, s) \in Nat
      BY AccountTypes DEF IInv
    <3>2. QED
      BY <1>2, <1>8, <1>9, <3>1 DEF Exact
  <2>2. Lost' \subseteq Lost
    BY <2>1 DEF Lost
  <2>3. QED
    BY <2>2, FewStayFew DEF IInv, Accounts
<1>21. QED
  BY <1>17, <1>18, <1>19, <1>20 DEF Accounts

LEMMA WorkerLogStepAccounts ==
    ASSUME IInv, NEW w \in Workers, E!LogStep(w), UNCHANGED sessionVars
    PROVE  Accounts'
<1> SUFFICES ASSUME scheduled PROVE Accounts'
  BY DEF Accounts, sessionVars
<1>1. /\ ~E!Idle(w) /\ req' = req /\ w \in Procs
      /\ \A q \in Procs \ {w} : stage'[q] = stage[q]
  BY LogStepFacts, Members DEF IInv
<1>2. LogFits'
  BY <1>1, LogStepFits DEF IInv
<1>3. Undamaged' => Undamaged
  BY <1>1, LogStepUndamaged DEF sessionVars
<1>4. UNCHANGED <<keep, found, todo, running, owed, reports, scheduled, crashes, pc>>
  BY DEF sessionVars
<1>5. \A v \in Workers \ {w}, kind \in {"failures", "errors"} :
          InHand(v, kind)' = InHand(v, kind) /\ InHand(v, kind) \in {0, 1}
  BY <1>1, Members, InHandType DEF InHand
<1>6. CASE stage[w] # "loaded"
  <2>1. SameCounts
    BY <1>1, <1>6, LogStepEffect DEF IInv, SameCounts, InFailures, InErrors
  <2>2. ASSUME pc[w] = "recording", NEW kind \in {"failures", "errors"}
        PROVE  /\ InHand(w, kind)' <= InHand(w, kind)
               /\ Undamaged' => InHand(w, kind)' = InHand(w, kind)
    <3>1. req[w] \in Additions
      BY <1>1, <2>2, WorkerInOperation, EntryFacts
    <3>2. stage[w] \in {"waiting", "locked", "truncated", "written"}
      BY <1>1, <1>6, LogTypes DEF IInv, E!Stages, E!Idle
    <3>3. CASE stage'[w] = "raised"
      BY <3>3, WorkerRaises, InHandType DEF Undamaged, InHand
    <3>4. CASE stage'[w] # "raised"
      <4>1. /\ stage[w] \in {"waiting", "locked"} => stage'[w] \in {"locked", "loaded"}
            /\ stage[w] \in {"truncated", "written"} => stage'[w] \in {"written", "returned"}
        BY <1>1, <3>1, <3>2, <3>4, LogTypes, RequestKinds, SameData
           DEF IInv, E!LogStep, E!ReadUnlocked, E!Acquire, E!Load, E!LoadFails, E!New,
               E!Exists, E!Truncate, E!Write, E!Release
      <4>2. InHand(w, kind)' = InHand(w, kind)
        BY <1>1, <3>2, <4>1 DEF InHand
      <4>3. QED
        BY <4>2, InHandType
    <3>5. QED
      BY <3>3, <3>4
  <2>3. \A v \in Workers : pc'[v] = "recording" =>
            /\ pc[v] = "recording"
            /\ \A kind \in {"failures", "errors"} :
                 /\ InHand(v, kind)' <= InHand(v, kind)
                 /\ Undamaged' => InHand(v, kind)' = InHand(v, kind)
    <3> SUFFICES ASSUME NEW v \in Workers, pc[v] = "recording",
                        NEW kind \in {"failures", "errors"}
                 PROVE  /\ InHand(v, kind)' <= InHand(v, kind)
                        /\ Undamaged' => InHand(v, kind)' = InHand(v, kind)
      BY <1>4
    <3>1. CASE v = w
      BY <2>2, <3>1
    <3>2. CASE v # w
      BY <1>5, <3>2
    <3>3. QED
      BY <3>1, <3>2
  <2>4. QED
    BY <1>2, <1>3, <1>4, <2>1, <2>3, SameAccounts, Recording, Testing DEF IInv
<1>7. CASE stage[w] = "loaded"
  <2>1. stage'[w] = "truncated"
    BY <1>1, <1>7, LogTypes
       DEF IInv, E!LogStep, E!ReadUnlocked, E!Acquire, E!Load, E!LoadFails, E!New,
           E!Exists, E!Truncate, E!Write, E!Release
  <2>2. CASE pc[w] = "recording"
    <3>1. PICK phase \in Phases : req[w] = EntryOf(running[w], phase)
      BY <1>1, <2>2, WorkerInOperation
    <3>2. PICK t \in Tests : running[w] = t
      BY <2>2, Recording
    <3>3. req[w] \in Additions
      BY <3>1, <3>2, EntryFacts
    <3>4. Current' = Apply(EntryOf(t, phase), Current)
      BY <1>1, <1>7, <3>1, <3>2, <3>3, LogStepEffect DEF IInv
    <3>5. QED
      BY <1>1, <1>2, <1>3, <1>4, <1>7, <2>1, <2>2, <3>1, <3>2, <3>4, EntryAccounts,
         Members
  <2>3. CASE pc[w] = "import"
    <3>1. req[w] = E!Create
      BY <1>1, <2>3, WorkerInOperation
    <3>2. file = E!Absent
      BY <1>1, <1>7, <3>1, SameOperations DEF IInv, LogFits, LoadedFits
    <3>3. QED
      BY <1>1, <3>2, WorkerInOperation DEF E!Absent
  <2>4. CASE pc[w] = "collecting"
    <3>1. req[w] = E!Wipe /\ ~keep
      BY <1>1, <2>4, WorkerInOperation
    <3>2. Current' = EmptyLog
      BY <1>1, <1>7, <3>1, LogStepEffect, RequestKinds DEF IInv
    <3>3. crashes # 0
      BY <2>4 DEF IInv, SessionFits
    <3>4. ~Undamaged'
      BY <1>4, <3>1, <3>3 DEF Undamaged
    <3>5. \A v \in Workers : pc'[v] = "recording" =>
              /\ pc[v] = "recording" /\ running'[v] = running[v] /\ owed'[v] = owed[v]
              /\ \A kind \in {"failures", "errors"} : InHand(v, kind)' = InHand(v, kind)
      BY <1>4, <1>5, <2>4
    <3>6. QED
      BY <1>2, <1>4, <3>2, <3>4, <3>5, ClearedAccounts
  <2>5. QED
    BY <1>1, <2>2, <2>3, <2>4, WorkerInOperation
<1>8. QED
  BY <1>6, <1>7

LEMMA LogStepInv ==
    ASSUME IInv, NEW p \in Procs, L!LogStep(p), UNCHANGED sessionVars
    PROVE  IInv'
<1>1. E!LogStep(p)
  BY SameOperations
<1>2. LogFits'
  BY <1>1, LogStepFits DEF IInv
<1>3. TypeOK'
  BY DEF IInv, TypeOK, sessionVars
<1>4. FileExists' /\ StartFits' /\ NoticeFits'
  BY <1>1, LogStepFileExists, LogStepStart, LogStepNotice
<1>5. CtlFits' /\ WorkersFit' /\ SessionFits' /\ TestsFit'
  BY <1>1, LogStepPlaces
<1>6. Accounts'
  BY <1>1, CtlLogStepAccounts, WorkerLogStepAccounts DEF Procs
<1>7. QED
  BY <1>2, <1>3, <1>4, <1>5, <1>6 DEF IInv

-----------------------------------------------------------------------------
(***************************************************************************)
(* A step of the controller.                                               *)
(***************************************************************************)
\* A step that leaves the workers and their tests where they are.
CtlAlone ==
    /\ Quiet
    /\ UNCHANGED <<keep, found, todo, running, owed, reports, crashes>>
    /\ \A w \in Workers : pc'[w] = pc[w] /\ stage'[w] = stage[w] /\ req'[w] = req[w]

LEMMA CtlStays ==
    ASSUME IInv, UNCHANGED logVars, NEW place \in CtlPlaces, Goto(Ctl, place),
           UNCHANGED <<keep, found, todo, running, owed, reports, crashes>>
    PROVE  CtlAlone /\ pc' = [pc EXCEPT ![Ctl] = place] /\ pc'[Ctl] = place
                    /\ stage' = stage /\ req' = req /\ snap' = snap
<1>1. Quiet
  BY LogKept DEF IInv
<1>2. pc \in [Procs -> CtlPlaces \cup WorkerPlaces]
  BY DEF IInv, TypeOK
<1>3. pc' = [pc EXCEPT ![Ctl] = place]
  BY DEF Goto
<1>4. pc'[Ctl] = place /\ \A w \in Workers : pc'[w] = pc[w]
  BY <1>2, <1>3, Members
<1>5. stage' = stage /\ req' = req /\ snap' = snap
  BY DEF logVars
<1>6. QED
  BY <1>1, <1>3, <1>4, <1>5 DEF CtlAlone

LEMMA CtlInvokes ==
    ASSUME IInv, NEW r \in Requested \cup {L!Create, L!Read}, L!Invoke(Ctl, r),
           NEW place \in CtlPlaces, Goto(Ctl, place),
           UNCHANGED <<keep, found, todo, running, owed, reports, crashes>>
    PROVE  /\ CtlAlone
           /\ pc' = [pc EXCEPT ![Ctl] = place] /\ pc'[Ctl] = place
           /\ stage'[Ctl] = "waiting" /\ req'[Ctl] = r
           /\ L!Idle(Ctl)
<1>1. /\ Quiet /\ L!Idle(Ctl)
      /\ stage' = [stage EXCEPT ![Ctl] = "waiting"]
      /\ req' = [req EXCEPT ![Ctl] = r]
  BY InvokeKept, Members DEF IInv
<1>2. /\ pc \in [Procs -> CtlPlaces \cup WorkerPlaces]
      /\ stage \in [Procs -> E!Stages]
      /\ req \in [Procs -> Requested \cup {E!Create, E!Read}]
  <2>1. LogFits /\ TypeOK
    BY DEF IInv
  <2>2. pc \in [Procs -> CtlPlaces \cup WorkerPlaces]
    BY <2>1 DEF TypeOK
  <2>3. QED
    BY <2>1, <2>2, LogTypes
<1>3. QED
  BY <1>1, <1>2, Members DEF CtlAlone, Goto

LEMMA CtlAloneKeeps ==
    ASSUME IInv, CtlAlone, scheduled' = scheduled
    PROVE  /\ LogFits' /\ WorkersFit' /\ TestsFit' /\ Accounts'
           /\ Undamaged' <=> Undamaged
<1>1. /\ LogFits' /\ Current' = Current /\ (Gone' <=> Gone)
      /\ UNCHANGED <<keep, found, todo, running, owed, reports, crashes>>
      /\ \A w \in Workers : pc'[w] = pc[w] /\ stage'[w] = stage[w] /\ req'[w] = req[w]
  BY DEF CtlAlone, Quiet
<1>2. Undamaged' <=> Undamaged
  BY <1>1 DEF Undamaged
<1>3. WorkersFit'
  <2> SUFFICES ASSUME NEW w \in Workers PROVE WorkerFits(w)'
    BY DEF WorkersFit
  <2>1. WorkerFits(w)
    BY DEF IInv, WorkersFit
  <2>2. QED
    BY <1>1, <1>2, <2>1 DEF WorkerFits, L!Idle, L!Create, L!Wipe
<1>4. TestsFit'
  BY <1>1 DEF IInv, TestsFit
<1>5. SameCounts
  BY <1>1 DEF SameCounts, InFailures, InErrors
<1>6. \A w \in Workers, kind \in {"failures", "errors"} :
          InHand(w, kind)' = InHand(w, kind) /\ InHand(w, kind) \in {0, 1}
  BY <1>1, InHandType DEF InHand
<1>7. Accounts'
  BY <1>1, <1>2, <1>5, <1>6, SameAccounts, Recording, Testing DEF IInv
<1>8. QED
  BY <1>1, <1>2, <1>3, <1>4, <1>7

\* The session around a step of the controller.
LEMMA CtlAloneSession ==
    ASSUME IInv, CtlAlone, scheduled' = scheduled,
           pc'[Ctl] \in {"start", "command"} => ~scheduled,
           ~scheduled /\ ~(pc'[Ctl] = "session" /\ L!Idle(Ctl)') =>
               \A w \in Workers : pc[w] = "absent",
           scheduled /\ pc'[Ctl] # "session" =>
               \A w \in Workers : pc[w] \in {"done", "broken"}
    PROVE  SessionFits'
<1>1. /\ Gone' <=> Gone
      /\ UNCHANGED <<reports, crashes>>
      /\ \A w \in Workers : pc'[w] = pc[w]
  BY DEF CtlAlone, Quiet
<1>2. SessionFits
  BY DEF IInv
<1>3. ~scheduled' => /\ crashes' = 0
                     /\ reports' = [t \in Tests |-> {}]
                     /\ \A w \in Workers : pc'[w] \in {"absent", "import", "collecting", "ready"}
  BY <1>1, <1>2 DEF SessionFits
<1>4. scheduled' /\ crashes' = 0 =>
          \A w \in Workers : pc'[w] \notin {"absent", "import", "collecting"}
  BY <1>1, <1>2 DEF SessionFits
<1>5. crashes' = 0 => ~Gone'
  BY <1>1, <1>2 DEF SessionFits
<1>6. QED
  BY <1>1, <1>3, <1>4, <1>5 DEF SessionFits

LEMMA CtlAloneTypes ==
    ASSUME IInv, CtlAlone, scheduled' = scheduled,
           NEW place \in CtlPlaces, pc' = [pc EXCEPT ![Ctl] = place]
    PROVE  TypeOK'
<1>1. TypeOK /\ UNCHANGED <<keep, found, todo, running, owed, reports, scheduled, crashes>>
  BY DEF IInv, CtlAlone
<1>2. pc' \in [Procs -> CtlPlaces \cup WorkerPlaces]
  <2>1. pc \in [Procs -> CtlPlaces \cup WorkerPlaces]
    BY <1>1 DEF TypeOK
  <2>2. QED
    BY <2>1
<1>3. QED
  BY <1>1, <1>2 DEF TypeOK

LEMMA StartCommandInv ==
    ASSUME IInv, StartCommand
    PROVE  IInv'
<1> USE DEF StartCommand, CtlPlaces
<1>1. /\ CtlAlone /\ pc' = [pc EXCEPT ![Ctl] = "command"] /\ pc'[Ctl] = "command"
      /\ stage'[Ctl] = "waiting" /\ req'[Ctl] = L!Create
  BY CtlInvokes
<1>2. /\ LogFits' /\ WorkersFit' /\ TestsFit' /\ Accounts' /\ TypeOK'
  BY <1>1, CtlAloneKeeps, CtlAloneTypes
<1>3. FileExists' /\ CtlFits'
  BY <1>1 DEF FileExists, CtlFits
<1>4. SessionFits'
  BY <1>1, CtlAloneSession DEF IInv, SessionFits
<1>5. StartFits'
  BY <1>1 DEF IInv, StartFits, CtlAlone, Quiet
<1>6. NoticeFits'
  BY <1>1 DEF IInv, NoticeFits
<1>7. QED
  BY <1>2, <1>3, <1>4, <1>5, <1>6 DEF IInv

LEMMA CommandFailsInv ==
    ASSUME IInv, CommandFails
    PROVE  IInv'
<1> USE DEF CommandFails, CtlPlaces
<1>1. /\ CtlAlone /\ pc' = [pc EXCEPT ![Ctl] = "checking"] /\ pc'[Ctl] = "checking"
      /\ stage'[Ctl] = "waiting" /\ req'[Ctl] = L!Read
      /\ L!Idle(Ctl)
  BY CtlInvokes
<1>2. /\ LogFits' /\ WorkersFit' /\ TestsFit' /\ Accounts' /\ TypeOK'
  BY <1>1, CtlAloneKeeps, CtlAloneTypes
<1>3. FileExists' /\ CtlFits'
  BY <1>1 DEF IInv, FileExists, CtlFits, CtlAlone, Quiet, L!Idle
<1>4. SessionFits'
  BY <1>1, CtlAloneSession DEF IInv, SessionFits
<1>5. StartFits' /\ NoticeFits'
  BY <1>1 DEF IInv, StartFits, NoticeFits
<1>6. QED
  BY <1>2, <1>3, <1>4, <1>5 DEF IInv

LEMMA ControllerSessionStartInv ==
    ASSUME IInv, ControllerSessionStart
    PROVE  IInv'
<1> USE DEF ControllerSessionStart, CtlPlaces
<1>1. /\ CtlAlone /\ pc' = [pc EXCEPT ![Ctl] = "session"] /\ pc'[Ctl] = "session"
      /\ L!Idle(Ctl)
      /\ IF keep THEN stage' = stage
                 ELSE stage'[Ctl] = "waiting" /\ req'[Ctl] = L!Wipe
  <2>1. L!Wipe \in Requested
    BY DEF L!Wipe, Requested
  <2>2. CASE keep
    BY <2>2, CtlStays
  <2>3. CASE ~keep
    BY <2>1, <2>3, CtlInvokes
  <2>4. QED
    BY <2>2, <2>3
<1>2. /\ LogFits' /\ WorkersFit' /\ TestsFit' /\ Accounts' /\ TypeOK'
  BY <1>1, CtlAloneKeeps, CtlAloneTypes
<1>3. keep' = keep /\ scheduled' = scheduled /\ ~scheduled
  BY DEF IInv, SessionFits
<1>4. FileExists'
  BY <1>1 DEF IInv, FileExists, CtlAlone, Quiet, L!Idle
<1>5. CtlFits'
  BY <1>1, <1>3 DEF CtlFits, L!Idle, L!Wipe
<1>6. SessionFits'
  BY <1>1, CtlAloneSession DEF IInv, SessionFits
<1>7. StartFits'
  BY <1>1, <1>3 DEF IInv, StartFits, CtlAlone, Quiet, L!Idle
<1>8. NoticeFits'
  BY <1>1 DEF IInv, NoticeFits
<1>9. QED
  BY <1>2, <1>4, <1>5, <1>6, <1>7, <1>8 DEF IInv

LEMMA EndSessionInv ==
    ASSUME IInv, EndSession
    PROVE  IInv'
<1> USE DEF EndSession, CtlPlaces
<1>1. /\ CtlAlone
      /\ \/ /\ pc' = [pc EXCEPT ![Ctl] = "checking"] /\ pc'[Ctl] = "checking"
            /\ req'[Ctl] = L!Read /\ stage'[Ctl] = "waiting"
         \/ /\ pc' = [pc EXCEPT ![Ctl] = "passed"] /\ pc'[Ctl] = "passed"
            /\ stage' = stage
  <2>1. CASE failed
    BY <2>1, CtlInvokes
  <2>2. CASE ~failed
    BY <2>2, CtlStays
  <2>3. QED
    BY <2>1, <2>2
<1>2. /\ LogFits' /\ WorkersFit' /\ TestsFit' /\ Accounts' /\ TypeOK'
  BY <1>1, CtlAloneKeeps, CtlAloneTypes
<1>3. FileExists'
  BY <1>1 DEF IInv, FileExists, CtlAlone, Quiet
<1>4. CtlFits'
  BY <1>1 DEF IInv, CtlFits, L!Idle, L!Read
<1>5. SessionFits'
  BY <1>1, CtlAloneSession DEF IInv, SessionFits
<1>6. StartFits' /\ NoticeFits'
  BY <1>1 DEF IInv, StartFits, NoticeFits
<1>7. QED
  BY <1>2, <1>3, <1>4, <1>5, <1>6 DEF IInv

LEMMA CatchTracebackInv ==
    ASSUME IInv, CatchTraceback
    PROVE  IInv'
<1> USE DEF CatchTraceback, CtlPlaces
<1>1. /\ CtlAlone /\ pc' = [pc EXCEPT ![Ctl] = "exiting"] /\ pc'[Ctl] = "exiting"
      /\ \/ stage' = stage /\ L!Idle(Ctl)
         \/ req'[Ctl] = Comment /\ stage'[Ctl] = "waiting"
  <2>1. CASE UNCHANGED logVars
    BY <2>1, CtlStays
  <2>2. CASE L!Invoke(Ctl, Comment)
    BY <2>2, CtlInvokes, CommentFacts
  <2>3. QED
    BY <2>1, <2>2
<1>2. /\ LogFits' /\ WorkersFit' /\ TestsFit' /\ Accounts' /\ TypeOK'
  BY <1>1, CtlAloneKeeps, CtlAloneTypes
<1>3. FileExists'
  BY <1>1 DEF IInv, FileExists, CtlAlone, Quiet
<1>4. CtlFits'
  BY <1>1 DEF IInv, CtlFits, L!Idle, Comment
<1>5. SessionFits'
  BY <1>1, CtlAloneSession DEF IInv, SessionFits
<1>6. StartFits' /\ NoticeFits'
  BY <1>1 DEF IInv, StartFits, NoticeFits
<1>7. QED
  BY <1>2, <1>3, <1>4, <1>5, <1>6 DEF IInv

LEMMA StartNotificationInv ==
    ASSUME IInv, StartNotification
    PROVE  IInv'
<1> USE DEF StartNotification, CtlPlaces
<1>1. /\ CtlAlone /\ pc' = [pc EXCEPT ![Ctl] = "notifying"] /\ pc'[Ctl] = "notifying"
      /\ stage'[Ctl] = "waiting" /\ req'[Ctl] = L!Read
  BY CtlInvokes
<1>2. /\ LogFits' /\ WorkersFit' /\ TestsFit' /\ Accounts' /\ TypeOK'
  BY <1>1, CtlAloneKeeps, CtlAloneTypes
<1>3. FileExists'
  BY <1>1 DEF IInv, FileExists, CtlAlone, Quiet
<1>4. CtlFits'
  BY <1>1 DEF CtlFits
<1>5. SessionFits'
  BY <1>1, CtlAloneSession DEF IInv, SessionFits
<1>6. StartFits' /\ NoticeFits'
  BY <1>1 DEF IInv, StartFits, NoticeFits
<1>7. QED
  BY <1>2, <1>3, <1>4, <1>5, <1>6 DEF IInv

LEMMA SendNotificationInv ==
    ASSUME IInv, SendNotification
    PROVE  IInv'
<1> USE DEF SendNotification, CtlPlaces
<1>1. /\ CtlAlone /\ pc' = [pc EXCEPT ![Ctl] = "notified"] /\ pc'[Ctl] = "notified"
      /\ stage' = stage /\ file' = file
  BY CtlStays DEF logVars
<1>2. /\ LogFits' /\ WorkersFit' /\ TestsFit' /\ Accounts' /\ TypeOK'
  BY <1>1, CtlAloneKeeps, CtlAloneTypes
<1>3. FileExists'
  BY <1>1 DEF IInv, FileExists, CtlAlone, Quiet
<1>4. CtlFits'
  BY <1>1 DEF CtlFits, L!Idle
<1>5. SessionFits'
  BY <1>1, CtlAloneSession DEF IInv, SessionFits
<1>6. StartFits'
  BY <1>1 DEF StartFits
<1>7. NoticeFits'
  <2> SUFFICES ASSUME notice'.sent, scheduled
               PROVE  file.state = "whole" /\ notice'.log = file.log
    BY <1>1 DEF NoticeFits
  <2>1. stage[Ctl] = "returned" /\ notice' = [sent |-> TRUE, log |-> snap[Ctl]]
    OBVIOUS
  <2>2. QED
    BY <2>1 DEF IInv, NoticeFits
<1>8. QED
  BY <1>2, <1>3, <1>4, <1>5, <1>6, <1>7 DEF IInv

LEMMA NothingSentInv ==
    ASSUME IInv, NotificationRefused \/ LogUnreadable
    PROVE  IInv'
<1> USE DEF NotificationRefused, LogUnreadable, CtlPlaces
<1>1. PICK place \in {"refused", "unread"} : Goto(Ctl, place)
  OBVIOUS
<1>2. /\ CtlAlone /\ pc' = [pc EXCEPT ![Ctl] = place] /\ pc'[Ctl] = place
      /\ stage' = stage /\ file' = file
  BY <1>1, CtlStays DEF logVars
<1>3. /\ LogFits' /\ WorkersFit' /\ TestsFit' /\ Accounts' /\ TypeOK'
  BY <1>2, CtlAloneKeeps, CtlAloneTypes
<1>4. FileExists'
  BY <1>2 DEF IInv, FileExists, CtlAlone, Quiet
<1>5. CtlFits'
  BY <1>2 DEF CtlFits, L!Idle
<1>6. SessionFits'
  BY <1>2, CtlAloneSession DEF IInv, SessionFits
<1>7. StartFits' /\ NoticeFits'
  BY <1>2 DEF IInv, StartFits, NoticeFits
<1>8. QED
  BY <1>3, <1>4, <1>5, <1>6, <1>7 DEF IInv

LEMMA ScheduleInv ==
    ASSUME IInv, Schedule
    PROVE  IInv'
<1> USE DEF Schedule
<1>1. Quiet /\ UNCHANGED <<keep, found, pc, todo, running, owed, reports, crashes, notice>>
            /\ UNCHANGED <<stage, req, snap, file>>
  BY LogKept DEF IInv, logVars
<1>2. LogFits' /\ TypeOK'
  BY <1>1 DEF IInv, TypeOK, Quiet
<1>3. Undamaged' <=> Undamaged
  BY <1>1 DEF Undamaged, Quiet
<1>4. FileExists' /\ CtlFits' /\ TestsFit'
  BY <1>1 DEF IInv, FileExists, CtlFits, TestsFit, L!Idle, L!Create, L!Wipe, L!Read, Comment
<1>5. WorkersFit'
  <2> SUFFICES ASSUME NEW w \in Workers PROVE WorkerFits(w)'
    BY DEF WorkersFit
  <2>1. WorkerFits(w)
    BY DEF IInv, WorkersFit
  <2>2. QED
    BY <1>1, <1>3, <2>1 DEF WorkerFits, L!Idle, L!Create, L!Wipe
<1>6. SessionFits'
  BY <1>1 DEF IInv, SessionFits, Quiet
<1>7. StartFits' /\ NoticeFits'
  BY <1>1 DEF IInv, StartFits, NoticeFits
<1>8. Accounts'
  <2>1. Current' = Current /\ Current = Before
    <3>1. Current = Before
      BY DEF IInv, StartFits, Before
    <3>2. QED
      BY <1>1, <3>1 DEF Quiet
  <2>2. Before' = Before
    BY <1>1 DEF Before
  <2>3. \A t \in Tests : reports[t] = {}
    BY DEF IInv, SessionFits
  <2>4. ASSUME NEW t \in Tests
        PROVE  AtMost(t, 0, 0)' /\ Balanced(t, 0, 0)' /\ Exact(Current, t)'
    <3>1. FailedCalls(t) = 0 /\ FailedFixtures(t) = 0
      BY <2>3, NoPhases DEF FailedCalls, FailedFixtures, Calls, Fixtures
    <3>2. FailedCalls(t)' = 0 /\ FailedFixtures(t)' = 0
      BY <1>1, <3>1 DEF FailedCalls, FailedFixtures
    <3>3. /\ InFailures(Before, t) \in Nat /\ InErrors(Before, t) \in Nat
      BY AccountTypes DEF IInv
    <3>4. /\ InFailures(Current, t)' = InFailures(Before, t)
          /\ InErrors(Current, t)' = InErrors(Before, t)
          /\ InFailures(Before, t)' = InFailures(Before, t)
          /\ InErrors(Before, t)' = InErrors(Before, t)
      BY <2>1, <2>2 DEF InFailures, InErrors
    <3>5. QED
      BY <3>2, <3>3, <3>4 DEF AtMost, Balanced, Exact
  <2>5. Lost' = {}
    BY <2>4 DEF Lost
  <2>6. FewAreLost'
    BY <1>1, <2>5, FS_EmptySet DEF FewAreLost, IInv, TypeOK
  <2>7. OpenTestsBalanced' /\ NothingTooMuch'
    BY <1>1, <2>4 DEF OpenTestsBalanced, NothingTooMuch, IInv, TypeOK
  <2>8. RestsFit'
    BY <1>1 DEF RestsFit
  <2>9. QED
    BY <2>6, <2>7, <2>8 DEF Accounts
<1>9. QED
  BY <1>2, <1>4, <1>5, <1>6, <1>7, <1>8 DEF IInv

-----------------------------------------------------------------------------
(***************************************************************************)
(* A step of a worker.                                                     *)
(***************************************************************************)
\* A step that leaves the controller and the other workers where they are.
WorkerAlone(w) ==
    /\ Quiet
    /\ UNCHANGED <<keep, found, scheduled, notice, crashes>>
    /\ \A q \in Procs \ {w} :
         pc'[q] = pc[q] /\ stage'[q] = stage[q] /\ req'[q] = req[q] /\ snap'[q] = snap[q]

LEMMA WorkerStays ==
    ASSUME IInv, NEW w \in Workers, UNCHANGED logVars,
           NEW place \in WorkerPlaces, Goto(w, place),
           UNCHANGED <<keep, found, scheduled, notice, crashes>>
    PROVE  /\ WorkerAlone(w)
           /\ pc' = [pc EXCEPT ![w] = place] /\ pc'[w] = place
           /\ stage' = stage /\ req' = req
<1>1. Quiet
  BY LogKept DEF IInv
<1>2. pc \in [Procs -> CtlPlaces \cup WorkerPlaces]
  BY DEF IInv, TypeOK
<1>3. pc' = [pc EXCEPT ![w] = place]
  BY DEF Goto
<1>4. pc'[w] = place /\ \A q \in Procs \ {w} : pc'[q] = pc[q]
  BY <1>2, <1>3, Members
<1>5. stage' = stage /\ req' = req /\ snap' = snap
  BY DEF logVars
<1>6. QED
  BY <1>1, <1>3, <1>4, <1>5 DEF WorkerAlone

LEMMA WorkerInvokes ==
    ASSUME IInv, NEW w \in Workers, NEW r \in Requested \cup {L!Create, L!Read},
           L!Invoke(w, r), NEW place \in WorkerPlaces,
           pc' = [pc EXCEPT ![w] = place],
           UNCHANGED <<keep, found, scheduled, notice, crashes>>
    PROVE  /\ WorkerAlone(w)
           /\ pc'[w] = place
           /\ stage'[w] = "waiting" /\ req'[w] = r
           /\ L!Idle(w)
<1>1. /\ Quiet /\ L!Idle(w)
      /\ stage' = [stage EXCEPT ![w] = "waiting"]
      /\ req' = [req EXCEPT ![w] = r]
      /\ \A q \in Procs \ {w} : snap'[q] = snap[q]
  BY InvokeKept, Members DEF IInv
<1>2. /\ pc \in [Procs -> CtlPlaces \cup WorkerPlaces]
      /\ stage \in [Procs -> E!Stages]
      /\ req \in [Procs -> Requested \cup {E!Create, E!Read}]
  <2>1. LogFits /\ TypeOK
    BY DEF IInv
  <2>2. pc \in [Procs -> CtlPlaces \cup WorkerPlaces]
    BY <2>1 DEF TypeOK
  <2>3. QED
    BY <2>1, <2>2, LogTypes
<1>3. QED
  BY <1>1, <1>2, Members DEF WorkerAlone

LEMMA WorkerAloneKeeps ==
    ASSUME IInv, NEW w \in Workers, WorkerAlone(w)
    PROVE  /\ LogFits' /\ FileExists' /\ CtlFits' /\ StartFits' /\ NoticeFits'
           /\ Undamaged' <=> Undamaged
           /\ crashes' = 0 => ~Gone'
<1>1. /\ LogFits' /\ Current' = Current /\ (Gone' <=> Gone) /\ file' = file
      /\ UNCHANGED <<keep, found, scheduled, notice, crashes>>
  BY DEF WorkerAlone, Quiet
<1>2. /\ pc'[Ctl] = pc[Ctl] /\ stage'[Ctl] = stage[Ctl] /\ req'[Ctl] = req[Ctl]
      /\ snap'[Ctl] = snap[Ctl]
  BY Members DEF WorkerAlone
<1>3. (Undamaged' <=> Undamaged) /\ (crashes' = 0 => ~Gone')
  BY <1>1 DEF Undamaged, IInv, SessionFits
<1>4. FileExists'
  BY <1>1, <1>2 DEF IInv, FileExists
<1>5. CtlFits'
  BY <1>1, <1>2 DEF IInv, CtlFits, L!Idle, L!Create, L!Wipe, L!Read, Comment
<1>6. StartFits'
  BY <1>1, <1>2 DEF IInv, StartFits, L!Idle
<1>7. NoticeFits'
  BY <1>1, <1>2 DEF IInv, NoticeFits
<1>8. QED
  BY <1>1, <1>3, <1>4, <1>5, <1>6, <1>7

\* The other workers are where they were.
LEMMA OthersFit ==
    ASSUME IInv, NEW w \in Workers, WorkerAlone(w), WorkerFits(w)',
           \A v \in Workers \ {w} : running'[v] = running[v]
    PROVE  WorkersFit'
<1> SUFFICES ASSUME NEW v \in Workers, v # w PROVE WorkerFits(v)'
  BY DEF WorkersFit
<1>1. WorkerFits(v)
  BY DEF IInv, WorkersFit
<1>2. Undamaged' <=> Undamaged
  BY WorkerAloneKeeps
<1>3. /\ pc'[v] = pc[v] /\ stage'[v] = stage[v] /\ req'[v] = req[v]
      /\ keep' = keep /\ running'[v] = running[v]
  BY Members DEF WorkerAlone
<1>4. QED
  BY <1>1, <1>2, <1>3 DEF WorkerFits, L!Idle, L!Create, L!Wipe

\* The session around a step of a worker.
LEMMA WorkerAloneSession ==
    ASSUME IInv, NEW w \in Workers, WorkerAlone(w),
           ~scheduled => /\ reports' = reports
                         /\ pc'[w] \in {"absent", "import", "collecting", "ready"},
           \/ (pc[Ctl] = "session" /\ L!Idle(Ctl))
           \/ (scheduled /\ pc'[w] \in {"done", "broken"}),
           scheduled /\ crashes = 0 => pc'[w] \notin {"absent", "import", "collecting"}
    PROVE  SessionFits'
<1>1. /\ Gone' <=> Gone
      /\ UNCHANGED <<scheduled, crashes>>
      /\ \A q \in Procs \ {w} : pc'[q] = pc[q]
      /\ pc'[Ctl] = pc[Ctl] /\ stage'[Ctl] = stage[Ctl]
  BY Members DEF WorkerAlone, Quiet
<1>2. \A v \in Workers \ {w} : v \in Procs \ {w}
  BY Members
<1>3. SessionFits /\ (L!Idle(Ctl)' <=> L!Idle(Ctl))
  BY <1>1 DEF IInv, L!Idle
<1>4. QED
  BY <1>1, <1>2, <1>3 DEF SessionFits

\* Steps with no part in the accounts.
LEMMA WorkerAloneAccounts ==
    ASSUME IInv, NEW w \in Workers, WorkerAlone(w),
           UNCHANGED <<todo, running, owed, reports>>,
           pc'[w] \notin {"testing", "recording"}
    PROVE  TestsFit' /\ Accounts'
<1>1. /\ LogFits' /\ Current' = Current
      /\ UNCHANGED <<keep, found, scheduled, crashes>>
      /\ \A v \in Workers \ {w} :
           pc'[v] = pc[v] /\ stage'[v] = stage[v] /\ req'[v] = req[v]
  BY Members DEF WorkerAlone, Quiet
<1>2. Undamaged' <=> Undamaged
  BY WorkerAloneKeeps
<1>3. TestsFit'
  BY <1>1 DEF IInv, TestsFit
<1>4. SameCounts
  BY <1>1 DEF SameCounts, InFailures, InErrors
<1>5. \A v \in Workers \ {w}, kind \in {"failures", "errors"} :
          InHand(v, kind)' = InHand(v, kind) /\ InHand(v, kind) \in {0, 1}
  BY <1>1, InHandType DEF InHand
<1>6. Accounts'
  BY <1>1, <1>2, <1>4, <1>5, SameAccounts, Recording, Testing DEF IInv
<1>7. QED
  BY <1>3, <1>6

LEMMA WorkerAloneTypes ==
    ASSUME IInv, NEW w \in Workers, WorkerAlone(w),
           UNCHANGED <<todo, running, owed, reports>>,
           NEW place \in WorkerPlaces, pc' = [pc EXCEPT ![w] = place]
    PROVE  TypeOK'
<1>1. TypeOK /\ UNCHANGED <<keep, found, todo, running, owed, reports, scheduled, crashes>>
  BY DEF IInv, WorkerAlone
<1>2. pc' \in [Procs -> CtlPlaces \cup WorkerPlaces]
  <2>1. pc \in [Procs -> CtlPlaces \cup WorkerPlaces]
    BY <1>1 DEF TypeOK
  <2>2. QED
    BY <2>1
<1>3. QED
  BY <1>1, <1>2 DEF TypeOK

LEMMA StartWorkerInv ==
    ASSUME IInv, NEW w \in Workers, StartWorker(w)
    PROVE  IInv'
<1> USE DEF StartWorker, WorkerPlaces
<1>1. pc' = [pc EXCEPT ![w] = "import"]
  BY DEF Goto
<1>2. /\ WorkerAlone(w) /\ pc'[w] = "import" /\ stage'[w] = "waiting" /\ req'[w] = L!Create
  BY <1>1, WorkerInvokes
<1>3. /\ LogFits' /\ FileExists' /\ CtlFits' /\ StartFits' /\ NoticeFits'
      /\ TypeOK' /\ TestsFit' /\ Accounts'
  BY <1>1, <1>2, WorkerAloneKeeps, WorkerAloneTypes, WorkerAloneAccounts
<1>4. WorkerFits(w)'
  BY <1>2 DEF IInv, WorkersFit, WorkerFits, L!Create
<1>5. WorkersFit'
  BY <1>2, <1>4, OthersFit
<1>6. SessionFits'
  <2>1. scheduled /\ crashes = 0 => FALSE
    BY DEF IInv, SessionFits
  <2>2. QED
    BY <1>2, <2>1, WorkerAloneSession
<1>7. QED
  BY <1>3, <1>5, <1>6 DEF IInv

\* A worker that is up does not depend on the controller any more.
LEMMA WorkerUp ==
    ASSUME IInv, NEW w \in Workers, pc[w] \notin {"absent", "done", "broken"}
    PROVE  pc[Ctl] = "session" /\ L!Idle(Ctl)
<1>1. CASE scheduled
  <2>1. pc[Ctl] = "session"
    BY <1>1 DEF IInv, SessionFits
  <2>2. QED
    BY <1>1, <2>1 DEF IInv, CtlFits
<1>2. CASE ~scheduled
  BY <1>2 DEF IInv, SessionFits
<1>3. QED
  BY <1>1, <1>2

LEMMA WorkerSessionStartInv ==
    ASSUME IInv, NEW w \in Workers, WorkerSessionStart(w)
    PROVE  IInv'
<1> USE DEF WorkerSessionStart, WorkerPlaces
<1>1. pc' = [pc EXCEPT ![w] = "collecting"] /\ keep' = keep
  BY DEF Goto
<1>2. /\ WorkerAlone(w) /\ pc'[w] = "collecting"
      /\ IF keep THEN stage' = stage ELSE stage'[w] = "waiting" /\ req'[w] = L!Wipe
  <2>1. L!Wipe \in Requested
    BY DEF L!Wipe, Requested
  <2>2. CASE keep
    BY <2>2, WorkerStays
  <2>3. CASE ~keep
    BY <1>1, <2>1, <2>3, WorkerInvokes
  <2>4. QED
    BY <2>2, <2>3
<1>3. /\ LogFits' /\ FileExists' /\ CtlFits' /\ StartFits' /\ NoticeFits'
      /\ TypeOK' /\ TestsFit' /\ Accounts'
  BY <1>1, <1>2, WorkerAloneKeeps, WorkerAloneTypes, WorkerAloneAccounts
<1>4. WorkerFits(w)'
  BY <1>1, <1>2 DEF IInv, WorkersFit, WorkerFits, L!Idle, L!Wipe
<1>5. WorkersFit'
  BY <1>2, <1>4, OthersFit
<1>6. SessionFits'
  <2>1. scheduled /\ crashes = 0 => FALSE
    BY DEF IInv, SessionFits
  <2>2. QED
    BY <1>2, <2>1, WorkerUp, WorkerAloneSession
<1>7. QED
  BY <1>3, <1>5, <1>6 DEF IInv

LEMMA CollectedInv ==
    ASSUME IInv, NEW w \in Workers, Collected(w)
    PROVE  IInv'
<1> USE DEF Collected, WorkerPlaces
<1>1. /\ WorkerAlone(w) /\ pc' = [pc EXCEPT ![w] = "ready"] /\ pc'[w] = "ready"
      /\ stage' = stage
  BY WorkerStays
<1>2. /\ LogFits' /\ FileExists' /\ CtlFits' /\ StartFits' /\ NoticeFits'
      /\ TypeOK' /\ TestsFit' /\ Accounts'
  BY <1>1, WorkerAloneKeeps, WorkerAloneTypes, WorkerAloneAccounts
<1>3. WorkerFits(w)'
  BY <1>1 DEF IInv, WorkersFit, WorkerFits, L!Idle
<1>4. WorkersFit'
  BY <1>1, <1>3, OthersFit
<1>5. SessionFits'
  BY <1>1, WorkerUp, WorkerAloneSession
<1>6. QED
  BY <1>2, <1>4, <1>5 DEF IInv

LEMMA StopWorkerInv ==
    ASSUME IInv, NEW w \in Workers, StopWorker(w)
    PROVE  IInv'
<1> USE DEF StopWorker, WorkerPlaces
<1>1. /\ WorkerAlone(w) /\ pc' = [pc EXCEPT ![w] = "done"] /\ pc'[w] = "done"
      /\ stage' = stage
  BY WorkerStays
<1>2. /\ LogFits' /\ FileExists' /\ CtlFits' /\ StartFits' /\ NoticeFits'
      /\ TypeOK' /\ TestsFit' /\ Accounts'
  BY <1>1, WorkerAloneKeeps, WorkerAloneTypes, WorkerAloneAccounts
<1>3. WorkerFits(w)'
  BY <1>1 DEF IInv, WorkersFit, WorkerFits, L!Idle
<1>4. WorkersFit'
  BY <1>1, <1>3, OthersFit
<1>5. SessionFits'
  BY <1>1, WorkerUp, WorkerAloneSession
<1>6. QED
  BY <1>2, <1>4, <1>5 DEF IInv

LEMMA InternalErrorInv ==
    ASSUME IInv, NEW w \in Workers, InternalError(w)
    PROVE  IInv'
<1> USE DEF InternalError, WorkerPlaces
<1>1. /\ WorkerAlone(w) /\ pc' = [pc EXCEPT ![w] = "broken"] /\ pc'[w] = "broken"
      /\ stage' = stage
  BY WorkerStays
<1>2. /\ LogFits' /\ FileExists' /\ CtlFits' /\ StartFits' /\ NoticeFits'
      /\ TypeOK' /\ TestsFit' /\ Accounts' /\ (Undamaged' <=> Undamaged)
  BY <1>1, WorkerAloneKeeps, WorkerAloneTypes, WorkerAloneAccounts
<1>3. WorkerFits(w)'
  BY <1>1, <1>2 DEF IInv, WorkersFit, WorkerFits, L!Idle
<1>4. WorkersFit'
  BY <1>1, <1>3, OthersFit
<1>5. SessionFits'
  <2>1. scheduled
    BY DEF IInv, SessionFits
  <2>2. QED
    BY <1>1, <2>1, WorkerUp, WorkerAloneSession
<1>6. QED
  BY <1>2, <1>4, <1>5 DEF IInv

-----------------------------------------------------------------------------
(***************************************************************************)
(* The steps with which a worker opens, settles or abandons an account.    *)
(***************************************************************************)
\* A test that a step has nothing to do with.
LEMMA TestKept ==
    ASSUME UNCHANGED <<keep, found>>, Current' = Current,
           NEW t \in Tests, reports'[t] = reports[t]
    PROVE  /\ \A f, e : AtMost(t, f, e)' <=> AtMost(t, f, e)
           /\ \A f, e : Balanced(t, f, e)' <=> Balanced(t, f, e)
           /\ Exact(Current, t)' <=> Exact(Current, t)
<1>1. /\ InFailures(Current, t)' = InFailures(Current, t)
      /\ InErrors(Current, t)' = InErrors(Current, t)
      /\ InFailures(Before, t)' = InFailures(Before, t)
      /\ InErrors(Before, t)' = InErrors(Before, t)
  BY DEF InFailures, InErrors, Before
<1>2. FailedCalls(t)' = FailedCalls(t) /\ FailedFixtures(t)' = FailedFixtures(t)
  BY DEF FailedCalls, FailedFixtures
<1>3. QED
  BY <1>1, <1>2 DEF AtMost, Balanced, Exact

\* A worker that a step has nothing to do with.
LEMMA RestStays ==
    ASSUME IInv, UNCHANGED <<keep, found>>, Current' = Current, Undamaged' => Undamaged,
           NEW v \in Workers, pc[v] = "recording",
           NEW t \in Tests, running[v] = t, reports'[t] = reports[t],
           running'[v] = t, owed'[v] = owed[v], stage'[v] = stage[v], req'[v] = req[v],
           NEW phases \in SUBSET Phases, Rest(v, phases)
    PROVE  Rest(v, phases)'
<1>1. \A kind \in {"failures", "errors"} : InHand(v, kind)' = InHand(v, kind)
  BY DEF InHand
<1>2. /\ \A f, e : AtMost(t, f, e)' <=> AtMost(t, f, e)
      /\ \A f, e : Balanced(t, f, e)' <=> Balanced(t, f, e)
  BY TestKept
<1> DEFINE f == Calls(phases) + InHand(v, "failures")
           e == Fixtures(phases) + InHand(v, "errors")
<1>3. f' = f /\ e' = e
  BY <1>1
<1>4. /\ owed[v] = EntriesOf(t, phases)
      /\ AtMost(t, f, e)
      /\ Undamaged => Balanced(t, f, e)
  BY DEF Rest
<1> HIDE DEF f, e
<1>5. AtMost(t, f, e)' /\ (Undamaged' => Balanced(t, f, e)')
  BY <1>2, <1>3, <1>4 DEF AtMost, Balanced
<1>6. QED
  BY <1>4, <1>5 DEF Rest, f, e

\* The other workers that are recording go on doing so.
LEMMA OtherRests ==
    ASSUME IInv, scheduled, UNCHANGED <<keep, found>>, Current' = Current,
           Undamaged' => Undamaged,
           NEW w \in Workers,
           \A v \in Workers \ {w} :
               /\ pc'[v] = pc[v] /\ stage'[v] = stage[v] /\ req'[v] = req[v]
               /\ running'[v] = running[v] /\ owed'[v] = owed[v],
           \A t \in Tests : reports'[t] = reports[t] \/ t = running[w],
           pc'[w] = "recording" => \E phases \in SUBSET Phases : Rest(w, phases)'
    PROVE  RestsFit'
<1> SUFFICES ASSUME NEW v \in Workers, v # w, pc[v] = "recording"
             PROVE  \E phases \in SUBSET Phases : Rest(v, phases)'
  BY DEF RestsFit
<1>1. PICK t \in Tests : running[v] = t
  BY Recording
<1>2. t # running[w]
  BY <1>1, TestsAreNames DEF IInv, TestsFit
<1>3. PICK phases \in SUBSET Phases : Rest(v, phases)
  BY DEF IInv, Accounts, RestsFit
<1>4. Rest(v, phases)'
  BY <1>1, <1>2, <1>3, RestStays
<1>5. QED
  BY <1>4

LEMMA StartTestInv ==
    ASSUME IInv, NEW w \in Workers, NEW t \in Tests, StartTest(w, t)
    PROVE  IInv'
<1> USE DEF StartTest, WorkerPlaces
<1>1. /\ WorkerAlone(w) /\ pc' = [pc EXCEPT ![w] = "testing"] /\ pc'[w] = "testing"
      /\ stage' = stage
  BY WorkerStays
<1>2. /\ LogFits' /\ FileExists' /\ CtlFits' /\ StartFits' /\ NoticeFits'
      /\ Undamaged' <=> Undamaged
  BY <1>1, WorkerAloneKeeps
<1>3. /\ running[w] = NoTest /\ L!Idle(w) /\ stage[w] # "raised"
  BY DEF IInv, WorkersFit, WorkerFits
<1>4. /\ running' = [running EXCEPT ![w] = t]
      /\ running'[w] = t /\ \A v \in Workers \ {w} : running'[v] = running[v]
  BY DEF IInv, TypeOK
<1>5. WorkersFit'
  <2>1. WorkerFits(w)'
    BY <1>1, <1>3, <1>4 DEF WorkerFits, L!Idle
  <2>2. QED
    BY <1>1, <1>4, <2>1, OthersFit
<1>6. SessionFits'
  BY <1>1, WorkerUp, WorkerAloneSession
<1>7. TypeOK'
  <2>1. TypeOK
    BY DEF IInv
  <2>2. pc' \in [Procs -> CtlPlaces \cup WorkerPlaces] /\ todo' \subseteq Tests
          /\ running' \in [Workers -> Tests \cup {NoTest}]
    <3>1. pc \in [Procs -> CtlPlaces \cup WorkerPlaces] /\ todo \subseteq Tests
            /\ running \in [Workers -> Tests \cup {NoTest}]
      BY <2>1 DEF TypeOK
    <3>2. QED
      BY <1>1, <3>1
  <2>3. QED
    BY <2>1, <2>2 DEF TypeOK
<1>8. TestsFit'
  <2>1. \A v \in Workers : pc'[v] = "testing" => v = w \/ pc[v] = "testing"
    BY <1>1, Members DEF WorkerAlone
  <2>2. QED
    BY <1>4, <2>1, TestsAreNames DEF IInv, TestsFit
<1>9. Accounts'
  <2>1. /\ Current' = Current /\ UNCHANGED <<keep, found>>
        /\ \A v \in Workers \ {w} :
             pc'[v] = pc[v] /\ stage'[v] = stage[v] /\ req'[v] = req[v]
    BY <1>1, Members DEF WorkerAlone, Quiet
  <2>2. \A s \in Tests : /\ AtMost(s, 0, 0)' <=> AtMost(s, 0, 0)
                         /\ Balanced(s, 0, 0)' <=> Balanced(s, 0, 0)
                         /\ Exact(Current, s)' <=> Exact(Current, s)
    BY <2>1, TestKept
  <2>3. NothingTooMuch'
    BY <2>2 DEF IInv, Accounts, NothingTooMuch
  <2>4. RestsFit'
    BY <1>1, <1>2, <1>4, <2>1, OtherRests
  <2>5. ASSUME Undamaged' PROVE OpenTestsBalanced' /\ FewAreLost'
    <3>1. OpenTestsBalanced /\ FewAreLost /\ todo \subseteq Tests
      BY <1>2, <2>5 DEF IInv, Accounts, TypeOK
    <3>2. \A s \in todo' : Balanced(s, 0, 0)'
      BY <2>2, <3>1 DEF OpenTestsBalanced
    <3>3. ASSUME NEW v \in Workers, pc'[v] = "testing" PROVE Balanced(running[v], 0, 0)'
      <4>1. CASE v = w
        <5>1. Balanced(t, 0, 0)'
          BY <2>2, <3>1 DEF OpenTestsBalanced
        <5>2. QED
          BY <1>4, <4>1, <5>1 DEF Balanced
      <4>2. CASE v # w
        <5>1. pc[v] = "testing"
          BY <2>1, <3>3, <4>2
        <5>2. PICK s \in Tests : running[v] = s
          BY <5>1, Testing
        <5>3. Balanced(s, 0, 0)'
          BY <2>2, <3>1, <5>1, <5>2 DEF OpenTestsBalanced
        <5>4. running'[v] = s
          BY <1>4, <4>2, <5>2
        <5>5. QED
          BY <5>3, <5>4 DEF Balanced
      <4>3. QED
        BY <4>1, <4>2
    <3>4. Lost' \subseteq Lost
      BY <1>3, <1>4, <2>2, TestsAreNames DEF Lost
    <3>5. FewAreLost'
      BY <3>1, <3>4, FewStayFew DEF IInv
    <3>6. QED
      BY <3>2, <3>3, <3>5 DEF OpenTestsBalanced
  <2>6. QED
    BY <2>3, <2>4, <2>5 DEF Accounts
<1>10. QED
  BY <1>2, <1>5, <1>6, <1>7, <1>8, <1>9 DEF IInv

LEMMA NextItemInv ==
    ASSUME IInv, NEW w \in Workers, NextItem(w)
    PROVE  IInv'
<1> USE DEF NextItem, WorkerPlaces
<1>1. /\ WorkerAlone(w) /\ pc' = [pc EXCEPT ![w] = "ready"] /\ pc'[w] = "ready"
      /\ stage' = stage
  BY WorkerStays
<1>2. /\ LogFits' /\ FileExists' /\ CtlFits' /\ StartFits' /\ NoticeFits'
      /\ Undamaged' <=> Undamaged
  BY <1>1, WorkerAloneKeeps
<1>3. PICK t \in Tests : running[w] = t
  BY Recording
<1>4. /\ running' = [running EXCEPT ![w] = NoTest]
      /\ running'[w] = NoTest /\ \A v \in Workers \ {w} : running'[v] = running[v]
  BY DEF IInv, TypeOK
<1>5. WorkersFit'
  <2>1. WorkerFits(w)'
    BY <1>1, <1>4 DEF WorkerFits, L!Idle
  <2>2. QED
    BY <1>1, <1>4, <2>1, OthersFit
<1>6. scheduled
  BY DEF IInv, SessionFits
<1>7. SessionFits'
  BY <1>1, <1>6, WorkerUp, WorkerAloneSession
<1>8. TypeOK'
  <2>1. TypeOK
    BY DEF IInv
  <2>2. pc' \in [Procs -> CtlPlaces \cup WorkerPlaces]
          /\ running' \in [Workers -> Tests \cup {NoTest}]
    <3>1. pc \in [Procs -> CtlPlaces \cup WorkerPlaces]
            /\ running \in [Workers -> Tests \cup {NoTest}]
      BY <2>1 DEF TypeOK
    <3>2. QED
      BY <1>1, <3>1
  <2>3. QED
    BY <2>1, <2>2 DEF TypeOK
<1>9. TestsFit'
  <2>1. \A v \in Workers : pc'[v] = "testing" => v # w /\ pc[v] = "testing"
    BY <1>1, Members DEF WorkerAlone
  <2>2. NoTest \notin todo
    BY TestsAreNames DEF IInv, TypeOK
  <2>3. QED
    BY <1>4, <2>1, <2>2 DEF IInv, TestsFit
<1>10. Accounts'
  <2>1. /\ Current' = Current /\ UNCHANGED <<keep, found, crashes>>
        /\ \A v \in Workers \ {w} :
             pc'[v] = pc[v] /\ stage'[v] = stage[v] /\ req'[v] = req[v]
    BY <1>1, Members DEF WorkerAlone, Quiet
  <2>2. \A s \in Tests : /\ AtMost(s, 0, 0)' <=> AtMost(s, 0, 0)
                         /\ Balanced(s, 0, 0)' <=> Balanced(s, 0, 0)
                         /\ Exact(Current, s)' <=> Exact(Current, s)
    BY <2>1, TestKept
  <2>3. NothingTooMuch'
    BY <1>6, <2>2 DEF IInv, Accounts, NothingTooMuch
  <2>4. RestsFit'
    BY <1>1, <1>2, <1>4, <1>6, <2>1, OtherRests
  <2>5. ASSUME Undamaged' PROVE OpenTestsBalanced' /\ FewAreLost'
    <3>1. OpenTestsBalanced /\ FewAreLost /\ todo \subseteq Tests
      BY <1>2, <1>6, <2>5 DEF IInv, Accounts, TypeOK
    <3>2. \A s \in todo' : Balanced(s, 0, 0)'
      BY <2>2, <3>1 DEF OpenTestsBalanced
    <3>3. ASSUME NEW v \in Workers, pc'[v] = "testing" PROVE Balanced(running[v], 0, 0)'
      <4>1. v # w /\ pc[v] = "testing"
        BY <1>1, <2>1, <3>3
      <4>2. PICK s \in Tests : running[v] = s
        BY <4>1, Testing
      <4>3. Balanced(s, 0, 0)'
        BY <2>2, <3>1, <4>1, <4>2 DEF OpenTestsBalanced
      <4>4. running'[v] = s
        BY <1>4, <4>1, <4>2
      <4>5. QED
        BY <4>3, <4>4 DEF Balanced
    <3>4. Exact(Current, t)
      <4>1. PICK phases \in SUBSET Phases : Rest(w, phases)
        BY <1>6 DEF IInv, Accounts, RestsFit
      <4>2. phases = {}
        BY <1>3, <4>1, NoEntries DEF Rest
      <4>3. InHand(w, "failures") = 0 /\ InHand(w, "errors") = 0
        BY DEF InHand, L!Idle
      <4>4. Balanced(t, 0, 0)
        BY <1>2, <1>3, <2>5, <4>1, <4>2, <4>3, NoPhases DEF Rest
      <4>5. InFailures(Current, t) \in Nat /\ InErrors(Current, t) \in Nat
        BY AccountTypes DEF IInv
      <4>6. QED
        BY <4>4, <4>5 DEF Balanced, Exact
    <3>5. Lost' \subseteq Lost
      BY <1>3, <1>4, <2>2, <3>4 DEF Lost
    <3>6. FewAreLost'
      BY <2>1, <3>1, <3>5, FewStayFew DEF IInv
    <3>7. QED
      BY <3>2, <3>3, <3>6 DEF OpenTestsBalanced
  <2>6. QED
    BY <2>3, <2>4, <2>5 DEF Accounts
<1>11. QED
  BY <1>2, <1>5, <1>7, <1>8, <1>9, <1>10 DEF IInv

LEMMA FinishTestInv ==
    ASSUME IInv, NEW w \in Workers, NEW phases \in Outcomes, FinishTest(w, phases)
    PROVE  IInv'
<1> USE DEF FinishTest, WorkerPlaces
<1>1. /\ WorkerAlone(w) /\ pc' = [pc EXCEPT ![w] = "recording"] /\ pc'[w] = "recording"
      /\ stage' = stage /\ req' = req
  BY WorkerStays
<1>2. /\ LogFits' /\ FileExists' /\ CtlFits' /\ StartFits' /\ NoticeFits'
      /\ Undamaged' <=> Undamaged
  BY <1>1, WorkerAloneKeeps
<1>3. PICK t \in Tests : running[w] = t
  BY Testing
<1>4. phases \in SUBSET Phases
  BY DEF Outcomes
<1>5. /\ owed'[w] = EntriesOf(t, phases) /\ \A v \in Workers \ {w} : owed'[v] = owed[v]
      /\ reports'[t] = phases /\ \A s \in Tests \ {t} : reports'[s] = reports[s]
      /\ reports[t] = {}
  BY <1>3 DEF IInv, TypeOK, TestsFit
<1>6. L!Idle(w) /\ stage[w] # "raised"
  BY DEF IInv, WorkersFit, WorkerFits
<1>7. WorkersFit'
  <2>1. WorkerFits(w)'
    BY <1>1, <1>3, <1>6 DEF WorkerFits, L!Idle
  <2>2. QED
    BY <1>1, <2>1, OthersFit
<1>8. scheduled
  BY DEF IInv, SessionFits
<1>9. SessionFits'
  BY <1>1, <1>8, WorkerUp, WorkerAloneSession
<1>10. TypeOK'
  <2>1. TypeOK
    BY DEF IInv
  <2>2. pc' \in [Procs -> CtlPlaces \cup WorkerPlaces]
    <3>1. pc \in [Procs -> CtlPlaces \cup WorkerPlaces]
      BY <2>1 DEF TypeOK
    <3>2. QED
      BY <1>1, <3>1
  <2>3. reports' \in [Tests -> SUBSET Phases]
    <3>1. reports \in [Tests -> SUBSET Phases]
      BY <2>1 DEF TypeOK
    <3>2. reports' = [reports EXCEPT ![t] = phases]
      BY <1>3
    <3>3. QED
      BY <1>4, <3>1, <3>2
  <2>4. owed' \in [Workers -> Seq({EntryOf(s, phase) : s \in Tests, phase \in Phases})]
    <3> DEFINE Set == Seq({EntryOf(s, phase) : s \in Tests, phase \in Phases})
    <3>1. owed \in [Workers -> Set] /\ EntriesOf(t, phases) \in Set
      BY <1>4, <2>1, EntriesType DEF TypeOK
    <3> HIDE DEF Set
    <3>2. owed' \in [Workers -> Set]
      BY <1>3, <3>1
    <3>3. QED
      BY <3>2 DEF Set
  <2>5. QED
    BY <2>1, <2>2, <2>3, <2>4 DEF TypeOK
<1>11. \A v \in Workers : v # w => running[v] # t
  BY <1>3, TestsAreNames DEF IInv, TestsFit
<1>12. t \notin todo /\ todo \subseteq Tests
  BY <1>3 DEF IInv, TestsFit, TypeOK
<1>13. \A v \in Workers : pc'[v] = "testing" => v # w /\ pc[v] = "testing"
  BY <1>1, Members DEF WorkerAlone
<1>14. TestsFit'
  <2>1. \A s \in todo : reports'[s] = {}
    BY <1>5, <1>12 DEF IInv, TestsFit
  <2>2. ASSUME NEW v \in Workers, pc'[v] = "testing" PROVE reports'[running[v]] = {}
    <3>1. running[v] \in Tests \ {t} /\ pc[v] = "testing"
      BY <1>11, <1>13, <2>2, Testing
    <3>2. QED
      BY <1>5, <3>1 DEF IInv, TestsFit
  <2>3. QED
    BY <2>1, <2>2 DEF IInv, TestsFit
<1>15. Accounts'
  <2>1. /\ Current' = Current /\ UNCHANGED <<keep, found, crashes, running, todo>>
        /\ \A v \in Workers \ {w} :
             pc'[v] = pc[v] /\ stage'[v] = stage[v] /\ req'[v] = req[v]
    BY <1>1, Members DEF WorkerAlone, Quiet
  <2>2. \A s \in Tests \ {t} : /\ AtMost(s, 0, 0)' <=> AtMost(s, 0, 0)
                               /\ Balanced(s, 0, 0)' <=> Balanced(s, 0, 0)
                               /\ Exact(Current, s)' <=> Exact(Current, s)
    BY <1>5, <2>1, TestKept
  <2>3. /\ FailedCalls(t) = 0 /\ FailedFixtures(t) = 0
        /\ FailedCalls(t)' = Calls(phases) /\ FailedFixtures(t)' = Fixtures(phases)
        /\ Calls(phases) \in Nat /\ Fixtures(phases) \in Nat
    BY <1>4, <1>5, NoPhases, PhaseCounts DEF FailedCalls, FailedFixtures, Calls, Fixtures
  <2>4. /\ InFailures(Current, t)' = InFailures(Current, t)
        /\ InErrors(Current, t)' = InErrors(Current, t)
        /\ InFailures(Before, t)' = InFailures(Before, t)
        /\ InErrors(Before, t)' = InErrors(Before, t)
        /\ InFailures(Current, t) \in Nat /\ InErrors(Current, t) \in Nat
        /\ InFailures(Before, t) \in Nat /\ InErrors(Before, t) \in Nat
    BY <2>1, AccountTypes DEF IInv, InFailures, InErrors, Before
  <2>5. AtMost(t, 0, 0)
    BY <1>8 DEF IInv, Accounts, NothingTooMuch
  <2>6. AtMost(t, Calls(phases), Fixtures(phases))' /\ AtMost(t, 0, 0)'
    BY <2>3, <2>4, <2>5 DEF AtMost
  <2>7. Undamaged' => Balanced(t, Calls(phases), Fixtures(phases))'
    <3>1. Undamaged' => Balanced(t, 0, 0)
      BY <1>2, <1>3, <1>8 DEF IInv, Accounts, OpenTestsBalanced
    <3>2. QED
      BY <2>3, <2>4, <3>1 DEF Balanced
  <2>8. NothingTooMuch'
    <3> SUFFICES ASSUME NEW s \in Tests PROVE AtMost(s, 0, 0)'
      BY DEF NothingTooMuch
    <3>1. CASE s = t
      BY <2>6, <3>1
    <3>2. CASE s # t
      BY <1>8, <2>2, <3>2 DEF IInv, Accounts, NothingTooMuch
    <3>3. QED
      BY <3>1, <3>2
  <2>9. Rest(w, phases)'
    <3>1. InHand(w, "failures")' = 0 /\ InHand(w, "errors")' = 0
      BY <1>1, <1>6 DEF InHand, L!Idle
    <3>2. Calls(phases) + 0 = Calls(phases) /\ Fixtures(phases) + 0 = Fixtures(phases)
      BY <2>3
    <3>3. running'[w] = t
      BY <1>3
    <3>4. QED
      BY <1>5, <2>6, <2>7, <3>1, <3>2, <3>3 DEF Rest
  <2>10. RestsFit'
    BY <1>2, <1>3, <1>4, <1>5, <1>8, <2>1, <2>9, OtherRests
  <2>11. ASSUME Undamaged' PROVE OpenTestsBalanced' /\ FewAreLost'
    <3>1. OpenTestsBalanced /\ FewAreLost
      BY <1>2, <1>8, <2>11 DEF IInv, Accounts
    <3>2. \A s \in todo' : Balanced(s, 0, 0)'
      BY <1>12, <2>1, <2>2, <3>1 DEF OpenTestsBalanced
    <3>3. ASSUME NEW v \in Workers, pc'[v] = "testing" PROVE Balanced(running[v], 0, 0)'
      <4>1. v # w /\ pc[v] = "testing"
        BY <1>13, <3>3
      <4>2. PICK s \in Tests : running[v] = s
        BY <4>1, Testing
      <4>3. s # t
        BY <1>11, <4>1, <4>2
      <4>4. Balanced(s, 0, 0)'
        BY <2>2, <3>1, <4>1, <4>2, <4>3 DEF OpenTestsBalanced
      <4>5. running'[v] = s
        BY <4>2
      <4>6. QED
        BY <4>4, <4>5 DEF Balanced
    <3>4. Lost' \subseteq Lost
      BY <1>3, <2>2 DEF Lost
    <3>5. FewAreLost'
      BY <2>1, <3>1, <3>4, FewStayFew DEF IInv
    <3>6. QED
      BY <3>2, <3>3, <3>5 DEF OpenTestsBalanced
  <2>12. QED
    BY <2>8, <2>10, <2>11 DEF Accounts
<1>16. QED
  BY <1>2, <1>7, <1>9, <1>10, <1>14, <1>15 DEF IInv

LEMMA RecordInv ==
    ASSUME IInv, NEW w \in Workers, Record(w)
    PROVE  IInv'
<1> USE DEF Record, WorkerPlaces
<1>1. PICK t \in Tests : running[w] = t
  BY Recording
<1>2. scheduled
  BY DEF IInv, SessionFits
<1>3. PICK phases \in SUBSET Phases : Rest(w, phases)
  BY <1>2 DEF IInv, Accounts, RestsFit
<1>4. owed[w] = EntriesOf(t, phases)
  BY <1>1, <1>3 DEF Rest
<1>5. PICK phase \in phases : /\ Head(owed[w]) = EntryOf(t, phase)
                              /\ Tail(owed[w]) = EntriesOf(t, phases \ {phase})
  BY <1>4, FirstEntry
<1>6. /\ WorkerAlone(w) /\ stage'[w] = "waiting" /\ req'[w] = EntryOf(t, phase)
      /\ L!Idle(w)
  <2>1. EntryOf(t, phase) \in Requested
    BY EntryFacts
  <2>2. pc' = [pc EXCEPT ![w] = "recording"]
    <3>1. pc \in [Procs -> CtlPlaces \cup WorkerPlaces]
      BY DEF IInv, TypeOK
    <3>2. QED
      BY <3>1
  <2>3. QED
    BY <1>5, <2>1, <2>2, WorkerInvokes
<1>7. /\ LogFits' /\ FileExists' /\ CtlFits' /\ StartFits' /\ NoticeFits'
      /\ Undamaged' <=> Undamaged
  BY <1>6, WorkerAloneKeeps
<1>8. /\ owed'[w] = EntriesOf(t, phases \ {phase})
      /\ \A v \in Workers \ {w} : owed'[v] = owed[v]
  <2>1. owed' = [owed EXCEPT ![w] = Tail(owed[w])]
    OBVIOUS
  <2>2. DOMAIN owed = Workers
    BY DEF IInv, TypeOK
  <2>3. QED
    BY <1>5, <2>1, <2>2
<1>9. WorkersFit'
  <2>1. WorkerFits(w)'
    BY <1>1, <1>5, <1>6 DEF WorkerFits
  <2>2. QED
    BY <1>6, <2>1, OthersFit
<1>10. SessionFits'
  BY <1>2, <1>6, WorkerUp, WorkerAloneSession
<1>11. TypeOK'
  <2>1. TypeOK
    BY DEF IInv
  <2>2. owed' \in [Workers -> Seq({EntryOf(s, ph) : s \in Tests, ph \in Phases})]
    <3> DEFINE Set == Seq({EntryOf(s, ph) : s \in Tests, ph \in Phases})
    <3>1. owed \in [Workers -> Set]
      BY <2>1 DEF TypeOK
    <3>2. EntriesOf(t, phases \ {phase}) \in Set
      BY EntriesType
    <3>3. owed' = [owed EXCEPT ![w] = EntriesOf(t, phases \ {phase})]
      BY <1>5
    <3> HIDE DEF Set
    <3>4. owed' \in [Workers -> Set]
      BY <3>1, <3>2, <3>3
    <3>5. QED
      BY <3>4 DEF Set
  <2>3. QED
    BY <2>1, <2>2 DEF TypeOK
<1>12. TestsFit'
  BY DEF IInv, TestsFit
<1>13. Accounts'
  <2>1. /\ Current' = Current /\ UNCHANGED <<keep, found, crashes, running, todo, reports, pc>>
        /\ \A v \in Workers \ {w} :
             pc'[v] = pc[v] /\ stage'[v] = stage[v] /\ req'[v] = req[v]
    BY <1>6, Members DEF WorkerAlone, Quiet
  <2>2. \A s \in Tests : /\ \A f, e : AtMost(s, f, e)' <=> AtMost(s, f, e)
                         /\ \A f, e : Balanced(s, f, e)' <=> Balanced(s, f, e)
                         /\ Exact(Current, s)' <=> Exact(Current, s)
    BY <2>1, TestKept
  <2>3. NothingTooMuch'
    BY <1>2, <2>2 DEF IInv, Accounts, NothingTooMuch
  <2>4. Rest(w, phases \ {phase})'
    <3>1. InHand(w, "failures") = 0 /\ InHand(w, "errors") = 0
      BY <1>6 DEF InHand, L!Idle
    <3>2. /\ InHand(w, "failures")' = IF phase = "call" THEN 1 ELSE 0
          /\ InHand(w, "errors")' = IF phase # "call" THEN 1 ELSE 0
      BY <1>6, EntryFacts DEF InHand
    <3>3. /\ Calls(phases) = Calls(phases \ {phase}) + (IF phase = "call" THEN 1 ELSE 0)
          /\ Fixtures(phases) = Fixtures(phases \ {phase})
                                    + (IF phase # "call" THEN 1 ELSE 0)
          /\ Calls(phases) \in Nat /\ Fixtures(phases) \in Nat
      BY PhaseCounts
    <3>4. /\ AtMost(t, Calls(phases), Fixtures(phases))
          /\ Undamaged => Balanced(t, Calls(phases), Fixtures(phases))
      <4>1. Calls(phases) + 0 = Calls(phases) /\ Fixtures(phases) + 0 = Fixtures(phases)
        BY <3>3
      <4>2. QED
        BY <1>1, <1>3, <3>1, <4>1 DEF Rest
    <3>5. /\ AtMost(t, Calls(phases), Fixtures(phases))'
          /\ Undamaged' => Balanced(t, Calls(phases), Fixtures(phases))'
      BY <1>7, <2>2, <3>4
    <3>6. running'[w] = t
      BY <1>1
    <3>7. QED
      BY <1>8, <3>2, <3>3, <3>5, <3>6 DEF Rest
  <2>5. RestsFit'
    BY <1>2, <1>7, <1>8, <2>1, <2>4, OtherRests
  <2>6. Undamaged' => OpenTestsBalanced'
    <3> SUFFICES ASSUME Undamaged' PROVE OpenTestsBalanced'
      OBVIOUS
    <3>1. OpenTestsBalanced /\ todo \subseteq Tests
      BY <1>2, <1>7 DEF IInv, Accounts, TypeOK
    <3>2. \A s \in todo : Balanced(s, 0, 0)'
      BY <2>2, <3>1 DEF OpenTestsBalanced
    <3>3. ASSUME NEW v \in Workers, pc[v] = "testing" PROVE Balanced(running[v], 0, 0)'
      <4>1. PICK s \in Tests : running[v] = s
        BY <3>3, Testing
      <4>2. Balanced(s, 0, 0)' /\ running'[v] = s
        BY <2>2, <3>1, <3>3, <4>1 DEF OpenTestsBalanced
      <4>3. QED
        BY <4>2 DEF Balanced
    <3>4. QED
      BY <3>2, <3>3 DEF OpenTestsBalanced
  <2>7. Undamaged' => FewAreLost'
    <3>1. Lost' \subseteq Lost
      BY <2>2 DEF Lost
    <3>2. QED
      BY <1>2, <1>7, <2>1, <3>1, FewStayFew DEF IInv, Accounts
  <2>8. QED
    BY <2>3, <2>5, <2>6, <2>7 DEF Accounts
<1>14. QED
  BY <1>7, <1>9, <1>10, <1>11, <1>12, <1>13 DEF IInv

(***************************************************************************)
(* The death of a worker.                                                  *)
(***************************************************************************)
LEMMA OneMore ==
    ASSUME NEW S, NEW x, IsFiniteSet(S)
    PROVE  IsFiniteSet(S \cup {x}) /\ Cardinality(S \cup {x}) <= Cardinality(S) + 1
<1>1. Cardinality(S) \in Nat
  BY FS_CardinalityType
<1>2. CASE x \in S
  <2> DEFINE T == S \cup {x}
  <2>1. T = S
    BY <1>2
  <2>2. IsFiniteSet(T) /\ Cardinality(T) = Cardinality(S)
    BY <2>1
  <2> HIDE DEF T
  <2>3. IsFiniteSet(T) /\ Cardinality(T) <= Cardinality(S) + 1
    BY <1>1, <2>2
  <2>4. QED
    BY <2>3 DEF T
<1>3. CASE x \notin S
  <2>1. IsFiniteSet(S \cup {x}) /\ Cardinality(S \cup {x}) = Cardinality(S) + 1
    BY <1>3, FS_AddElement
  <2>2. QED
    BY <1>1, <2>1
<1>4. QED
  BY <1>2, <1>3

LEMMA CrashInv ==
    ASSUME IInv, NEW w \in Workers, Crash(w)
    PROVE  IInv'
<1> USE DEF Crash, WorkerPlaces
<1>1. /\ LogFits'
      /\ Current' = IF stage[w] = "truncated" THEN EmptyLog ELSE Current
      /\ stage' = [stage EXCEPT ![w] = "idle"]
      /\ file' = file
      /\ \A q \in Procs \ {w} : req'[q] = req[q] /\ snap'[q] = snap[q]
      /\ Gone => Gone'
      /\ stage[w] = "truncated" => Gone'
  BY KillFacts, Members DEF IInv
<1>2. /\ pc' = [pc EXCEPT ![w] = "absent"] /\ pc \in [Procs -> CtlPlaces \cup WorkerPlaces]
      /\ stage \in [Procs -> E!Stages]
  <2>1. pc' = [pc EXCEPT ![w] = "absent"]
    BY DEF Goto
  <2>2. pc \in [Procs -> CtlPlaces \cup WorkerPlaces]
    BY DEF IInv, TypeOK
  <2>3. stage \in [Procs -> E!Stages]
    BY LogTypes DEF IInv
  <2>4. QED
    BY <2>1, <2>2, <2>3
<1>3. /\ pc'[w] = "absent" /\ stage'[w] = "idle"
      /\ \A q \in Procs \ {w} : pc'[q] = pc[q] /\ stage'[q] = stage[q]
  BY <1>1, <1>2, Members
<1>4. PICK t \in Tests : running[w] = t
  BY Recording, Testing
<1>5. /\ running'[w] = NoTest /\ \A v \in Workers \ {w} : running'[v] = running[v]
      /\ \A v \in Workers \ {w} : owed'[v] = owed[v]
  BY DEF IInv, TypeOK
<1>6. scheduled /\ pc[Ctl] = "session" /\ L!Idle(Ctl)
  BY WorkerUp DEF IInv, SessionFits
<1>7. crashes \in Nat /\ crashes' = crashes + 1
  BY DEF IInv, TypeOK
<1>8. Undamaged' => Undamaged
  BY <1>1, <1>7 DEF Undamaged
<1>9. /\ pc'[Ctl] = pc[Ctl] /\ stage'[Ctl] = stage[Ctl] /\ req'[Ctl] = req[Ctl]
      /\ snap'[Ctl] = snap[Ctl]
  BY <1>1, <1>3, Members
<1>10. FileExists' /\ CtlFits' /\ StartFits' /\ NoticeFits'
  <2>1. FileExists'
    BY <1>1, <1>9 DEF IInv, FileExists
  <2>2. CtlFits'
    BY <1>9 DEF IInv, CtlFits, L!Idle, L!Create, L!Wipe, L!Read, Comment
  <2>3. StartFits'
    BY <1>6 DEF StartFits
  <2>4. NoticeFits'
    BY <1>6, <1>9 DEF IInv, NoticeFits
  <2>5. QED
    BY <2>1, <2>2, <2>3, <2>4
<1>11. WorkersFit'
  <2> SUFFICES ASSUME NEW v \in Workers PROVE WorkerFits(v)'
    BY DEF WorkersFit
  <2>1. CASE v = w
    BY <1>3, <1>5, <2>1 DEF WorkerFits, L!Idle
  <2>2. CASE v # w
    <3>1. WorkerFits(v)
      BY DEF IInv, WorkersFit
    <3>2. /\ pc'[v] = pc[v] /\ stage'[v] = stage[v] /\ req'[v] = req[v]
          /\ keep' = keep /\ running'[v] = running[v]
      BY <1>1, <1>3, <1>5, <2>2, Members
    <3>3. QED
      BY <1>8, <3>1, <3>2 DEF WorkerFits, L!Idle, L!Create, L!Wipe
  <2>3. QED
    BY <2>1, <2>2
<1>12. SessionFits'
  <2>1. crashes' # 0
    BY <1>7
  <2>2. L!Idle(Ctl)'
    BY <1>6, <1>9 DEF L!Idle
  <2>3. QED
    BY <1>6, <1>9, <2>1, <2>2 DEF SessionFits
<1>13. TypeOK'
  <2>1. TypeOK
    BY DEF IInv
  <2>2. pc' \in [Procs -> CtlPlaces \cup WorkerPlaces]
          /\ running' \in [Workers -> Tests \cup {NoTest}] /\ crashes' \in Nat
    <3>1. running \in [Workers -> Tests \cup {NoTest}]
      BY <2>1 DEF TypeOK
    <3>2. running' = [running EXCEPT ![w] = NoTest]
      OBVIOUS
    <3>3. pc' \in [Procs -> CtlPlaces \cup WorkerPlaces]
      BY <1>2
    <3>4. running' \in [Workers -> Tests \cup {NoTest}]
      BY <3>1, <3>2
    <3>5. QED
      BY <1>7, <3>3, <3>4
  <2>3. owed' \in [Workers -> Seq({EntryOf(s, phase) : s \in Tests, phase \in Phases})]
    <3> DEFINE Set == Seq({EntryOf(s, phase) : s \in Tests, phase \in Phases})
    <3>1. owed \in [Workers -> Set] /\ <<>> \in Set
      BY <2>1 DEF TypeOK
    <3> HIDE DEF Set
    <3>2. owed' \in [Workers -> Set]
      BY <3>1
    <3>3. QED
      BY <3>2 DEF Set
  <2>4. QED
    BY <2>1, <2>2, <2>3 DEF TypeOK
<1>14. \A v \in Workers : pc'[v] \in {"testing", "recording"} => v # w /\ pc[v] = pc'[v]
  BY <1>3, Members
<1>15. TestsFit'
  <2>1. NoTest \notin todo
    BY TestsAreNames DEF IInv, TypeOK
  <2>2. QED
    BY <1>5, <1>14, <2>1 DEF IInv, TestsFit
<1>16. \A v \in Workers \ {w}, kind \in {"failures", "errors"} :
           InHand(v, kind)' = InHand(v, kind)
  BY <1>1, <1>3, Members DEF InHand
<1>17. Accounts'
  <2>1. CASE stage[w] = "truncated"
    <3>1. Current' = EmptyLog /\ ~Undamaged'
      BY <1>1, <2>1 DEF Undamaged
    <3>2. \A v \in Workers : pc'[v] = "recording" =>
            /\ pc[v] = "recording" /\ running'[v] = running[v] /\ owed'[v] = owed[v]
            /\ \A kind \in {"failures", "errors"} : InHand(v, kind)' = InHand(v, kind)
      BY <1>5, <1>14, <1>16
    <3>3. QED
      BY <1>1, <1>6, <3>1, <3>2, ClearedAccounts
  <2>2. CASE stage[w] # "truncated"
    <3>1. Current' = Current /\ UNCHANGED <<keep, found, todo, reports>>
      BY <1>1, <2>2
    <3>2. \A s \in Tests : /\ AtMost(s, 0, 0)' <=> AtMost(s, 0, 0)
                           /\ Balanced(s, 0, 0)' <=> Balanced(s, 0, 0)
                           /\ Exact(Current, s)' <=> Exact(Current, s)
      BY <3>1, TestKept
    <3>3. NothingTooMuch'
      BY <1>6, <3>2 DEF IInv, Accounts, NothingTooMuch
    <3>4. RestsFit'
      <4>1. \A v \in Workers \ {w} :
              /\ pc'[v] = pc[v] /\ stage'[v] = stage[v] /\ req'[v] = req[v]
              /\ running'[v] = running[v] /\ owed'[v] = owed[v]
        BY <1>1, <1>3, <1>5, Members
      <4>2. QED
        BY <1>3, <1>6, <1>8, <3>1, <4>1, OtherRests
    <3>5. Undamaged' => OpenTestsBalanced'
      <4> SUFFICES ASSUME Undamaged' PROVE OpenTestsBalanced'
        OBVIOUS
      <4>1. OpenTestsBalanced /\ todo \subseteq Tests
        BY <1>6, <1>8 DEF IInv, Accounts, TypeOK
      <4>2. \A s \in todo' : Balanced(s, 0, 0)'
        BY <3>1, <3>2, <4>1 DEF OpenTestsBalanced
      <4>3. ASSUME NEW v \in Workers, pc'[v] = "testing" PROVE Balanced(running[v], 0, 0)'
        <5>1. v # w /\ pc[v] = "testing"
          BY <1>14, <4>3
        <5>2. PICK s \in Tests : running[v] = s
          BY <5>1, Testing
        <5>3. Balanced(s, 0, 0)' /\ running'[v] = s
          BY <1>5, <3>2, <4>1, <5>1, <5>2 DEF OpenTestsBalanced
        <5>4. QED
          BY <5>3 DEF Balanced
      <4>4. QED
        BY <4>2, <4>3 DEF OpenTestsBalanced
    <3>6. Undamaged' => FewAreLost'
      <4> SUFFICES ASSUME Undamaged' PROVE FewAreLost'
        OBVIOUS
      <4>1. IsFiniteSet(Lost) /\ Cardinality(Lost) <= crashes
        BY <1>6, <1>8 DEF IInv, Accounts, FewAreLost
      <4>2. Lost' \subseteq Lost \cup {t}
        BY <1>4, <1>5, <3>1, <3>2 DEF Lost
      <4>3. IsFiniteSet(Lost \cup {t}) /\ Cardinality(Lost \cup {t}) <= Cardinality(Lost) + 1
        BY <4>1, OneMore
      <4>4. IsFiniteSet(Lost') /\ Cardinality(Lost') <= Cardinality(Lost \cup {t})
        BY <4>2, <4>3, FS_Subset
      <4>5. /\ Cardinality(Lost) \in Nat /\ Cardinality(Lost') \in Nat
            /\ Cardinality(Lost \cup {t}) \in Nat
        BY <4>1, <4>3, <4>4, FS_CardinalityType
      <4>6. QED
        BY <1>7, <4>1, <4>3, <4>4, <4>5 DEF FewAreLost
    <3>7. QED
      BY <3>3, <3>4, <3>5, <3>6 DEF Accounts
  <2>3. QED
    BY <2>1, <2>2
<1>18. QED
  BY <1>1, <1>10, <1>11, <1>12, <1>13, <1>15, <1>17 DEF IInv

-----------------------------------------------------------------------------
(***************************************************************************)
(* The invariant.                                                          *)
(***************************************************************************)
LEMMA InitInv == Init => IInv
<1> SUFFICES ASSUME Init PROVE IInv
  OBVIOUS
<1> USE DEF Init
<1>1. E!LogInit
  BY SameOperations, SameData DEF E!LogInit, L!Whole, E!Whole
<1>2. E!IInv
  BY <1>1, E!InitInv, Assumptions
<1>3. LoadedFits
  BY DEF LoadedFits, E!InCriticalSection
<1>4. LogFits
  BY <1>2, <1>3 DEF LogFits
<1>5. /\ pc[Ctl] = "start" /\ stage[Ctl] = "idle"
      /\ \A w \in Workers : pc[w] = "absent" /\ stage[w] = "idle" /\ running[w] = NoTest
  BY Members
<1>6. TypeOK
  <2>1. file.log \in Logs
    BY <1>4, LogTypes
  <2>2. pc \in [Procs -> CtlPlaces \cup WorkerPlaces]
    BY DEF CtlPlaces, WorkerPlaces
  <2>3. owed \in [Workers -> Seq({EntryOf(t, phase) : t \in Tests, phase \in Phases})]
    <3> DEFINE Set == Seq({EntryOf(t, phase) : t \in Tests, phase \in Phases})
    <3>1. <<>> \in Set
      OBVIOUS
    <3> HIDE DEF Set
    <3>2. owed \in [Workers -> Set]
      BY <3>1
    <3>3. QED
      BY <3>2 DEF Set
  <2>4. keep \in BOOLEAN /\ found \in Logs /\ todo \subseteq Tests
        /\ running \in [Workers -> Tests \cup {NoTest}]
        /\ scheduled \in BOOLEAN /\ crashes \in Nat
    BY <2>1, KeepIsBoolean
  <2>5. reports \in [Tests -> SUBSET Phases]
    OBVIOUS
  <2>6. QED
    BY <2>2, <2>3, <2>4, <2>5 DEF TypeOK
<1>7. FileExists /\ CtlFits
  BY <1>5 DEF FileExists, CtlFits, CtlPlaces
<1>8. WorkersFit
  BY <1>5 DEF WorkersFit, WorkerFits, WorkerPlaces, L!Idle
<1>9. file.state # "torn"
  BY DEF L!Absent, L!Whole
<1>10. SessionFits
  BY <1>5, <1>9 DEF SessionFits, Gone
<1>11. StartFits
  <2>1. Current = file.log
    BY E!LogOfFile, Assumptions DEF Current
  <2>2. QED
    BY <1>5, <2>1 DEF StartFits
<1>12. TestsFit
  BY <1>5, TestsAreNames DEF TestsFit
<1>13. Accounts
  BY DEF Accounts
<1>14. NoticeFits
  BY DEF NoticeFits, NoNotice
<1>15. QED
  BY <1>4, <1>6, <1>7, <1>8, <1>10, <1>11, <1>12, <1>13, <1>14 DEF IInv

LEMMA StutterInv ==
    ASSUME IInv, UNCHANGED vars
    PROVE  IInv'
<1> USE DEF vars, logVars, sessionVars
<1>1. Quiet
  BY LogKept DEF IInv
<1>2. CtlAlone
  BY <1>1 DEF CtlAlone
<1>3. LogFits' /\ WorkersFit' /\ TestsFit' /\ Accounts'
  BY <1>2, CtlAloneKeeps
<1>4. TypeOK' /\ FileExists' /\ CtlFits'
  BY DEF IInv, TypeOK, FileExists, CtlFits, L!Idle, L!Create, L!Wipe, L!Read, Comment
<1>5. SessionFits'
  BY DEF IInv, SessionFits, L!Idle, Gone
<1>6. StartFits' /\ NoticeFits'
  BY <1>1 DEF IInv, StartFits, NoticeFits, L!Idle, Quiet
<1>7. QED
  BY <1>3, <1>4, <1>5, <1>6 DEF IInv

LEMMA StepInv == IInv /\ [Next]_vars => IInv'
<1> SUFFICES ASSUME IInv, [Next]_vars PROVE IInv'
  OBVIOUS
<1>1. CASE CtlStep
  BY <1>1, Members, StartCommandInv, CommandFailsInv, ControllerSessionStartInv, ScheduleInv,
     EndSessionInv, CatchTracebackInv, StartNotificationInv, SendNotificationInv,
     NothingSentInv, LogStepInv
     DEF CtlStep
<1>2. CASE \E w \in Workers : WorkerStep(w)
  BY <1>2, Members, StartWorkerInv, WorkerSessionStartInv, CollectedInv, StartTestInv,
     FinishTestInv, RecordInv, NextItemInv, InternalErrorInv, StopWorkerInv, LogStepInv
     DEF WorkerStep
<1>3. CASE \E w \in Workers : Crash(w)
  BY <1>3, CrashInv
<1>4. CASE UNCHANGED vars
  BY <1>4, StutterInv
<1>5. QED
  BY <1>1, <1>2, <1>3, <1>4 DEF Next

LEMMA Invariance == Spec => []IInv
<1>1. QED
  BY InitInv, StepInv, PTL DEF Spec

\* The settled account of a session whose notification was sent or not.
LEMMA SettledAccounts ==
    ASSUME IInv, scheduled, pc[Ctl] \in Ends
    PROVE  /\ Current = file.log
           /\ Gone \/ file.state = "whole"
           /\ notice.sent => notice.log = file.log /\ file.state = "whole"
           /\ \A t \in Tests : AtMost(t, 0, 0)
           /\ (keep \/ crashes = 0) /\ ~Gone =>
                /\ IsFiniteSet(Lost) /\ Cardinality(Lost) <= crashes
                /\ \A t \in Tests : Exact(Current, t) \/ t \in Lost
<1>1. \A w \in Workers : pc[w] \in {"done", "broken"}
  BY DEF IInv, SessionFits, Ends
<1>2. \A p \in Procs : L!Idle(p)
  BY <1>1 DEF Procs, IInv, CtlFits, WorkersFit, WorkerFits, Ends
<1>3. \A p \in Procs : stage[p] # "truncated"
  BY <1>2 DEF L!Idle
<1>4. Current = file.log
  BY <1>3, E!LogOfFile, Assumptions DEF Current
<1>5. Gone \/ file.state = "whole"
  <2>1. file \in E!Files
    BY LogTypes DEF IInv
  <2>2. file.state # "absent"
    BY DEF IInv, FileExists, Ends
  <2>3. QED
    BY <1>3, <2>1, <2>2 DEF E!Files, E!Absent, E!Torn, Gone
<1>6. notice.sent => notice.log = file.log /\ file.state = "whole"
  BY DEF IInv, NoticeFits
<1>7. \A t \in Tests : AtMost(t, 0, 0)
  BY DEF IInv, Accounts, NothingTooMuch
<1>8. ASSUME keep \/ crashes = 0, ~Gone
      PROVE  /\ IsFiniteSet(Lost) /\ Cardinality(Lost) <= crashes
             /\ \A t \in Tests : Exact(Current, t) \/ t \in Lost
  <2>1. Undamaged
    BY <1>8 DEF Undamaged
  <2>2. FewAreLost /\ OpenTestsBalanced
    BY <2>1 DEF IInv, Accounts
  <2>3. ASSUME NEW w \in Workers PROVE running[w] = NoTest
    BY <1>1, <2>1 DEF IInv, WorkersFit, WorkerFits
  <2>4. ASSUME NEW t \in Tests PROVE Exact(Current, t) \/ t \in Lost
    <3>1. CASE t \in todo
      <4>1. Balanced(t, 0, 0)
        BY <2>2, <3>1 DEF OpenTestsBalanced
      <4>2. InFailures(Current, t) \in Nat /\ InErrors(Current, t) \in Nat
        BY AccountTypes DEF IInv
      <4>3. QED
        BY <4>1, <4>2 DEF Balanced, Exact
    <3>2. CASE t \notin todo
      BY <2>3, <3>2, TestsAreNames DEF Lost
    <3>3. QED
      BY <3>1, <3>2
  <2>5. QED
    BY <2>2, <2>4 DEF FewAreLost
<1>9. QED
  BY <1>4, <1>5, <1>6, <1>7, <1>8

(***************************************************************************)
(* However many workers record their failed tests at the same time, the    *)
(* notification of a session in which none of them dies has every failed   *)
(* report exactly once, next to what --keep-error-log kept.                *)
(***************************************************************************)
THEOREM NotificationIsExact == Spec => []NoticeIsExact
<1>1. IInv => NoticeIsExact
  <2> SUFFICES ASSUME IInv, notice.sent, scheduled, crashes = 0, NEW t \in Tests
               PROVE  Exact(notice.log, t)
    BY DEF NoticeIsExact
  <2>1. pc[Ctl] \in Ends /\ ~Gone
    BY DEF IInv, NoticeFits, SessionFits, Ends
  <2>2. notice.log = Current /\ IsFiniteSet(Lost) /\ Cardinality(Lost) <= 0
          /\ (Exact(Current, t) \/ t \in Lost)
    BY <2>1, SettledAccounts
  <2>3. Lost = {}
    BY <2>2, FS_CardinalityType, FS_EmptySet
  <2>4. QED
    BY <2>2, <2>3
<1>2. QED
  BY <1>1, Invariance, PTL

-----------------------------------------------------------------------------
(***************************************************************************)
(* What it means that a worker died over the empty file.                   *)
(***************************************************************************)
\* The file is torn for good just when that happened and nobody may clear it.
CutFits ==
    /\ cutOff \in BOOLEAN
    /\ Gone => cutOff
    /\ keep /\ cutOff => Gone
    /\ pc[Ctl] = "notifying" /\ stage[Ctl] = "raised" => cutOff
    /\ pc[Ctl] = "unread" => cutOff

LEMMA CutInit == Init => CutFits
<1> SUFFICES ASSUME Init PROVE CutFits
  OBVIOUS
<1>1. pc[Ctl] = "start" /\ cutOff = FALSE /\ file.state # "torn"
  BY Members DEF Init, L!Absent, L!Whole
<1>2. QED
  BY <1>1 DEF CutFits, Gone

\* Whoever clears the log does so without --keep-error-log.
LEMMA WipesUnkept ==
    ASSUME IInv, NEW p \in Procs, E!LogStep(p), req[p] = E!Wipe
    PROVE  ~keep
<1>1. ~E!Idle(p)
  BY LogStepFacts DEF IInv
<1>2. CASE p = Ctl
  BY <1>1, <1>2, CtlInOperation, RequestKinds, CommentFacts
<1>3. CASE p \in Workers
  BY <1>1, <1>3, WorkerInOperation, RequestKinds, EntryFacts
<1>4. QED
  BY <1>2, <1>3 DEF Procs

\* The log that is read for the notification is torn for good, or there.
LEMMA CtlReads ==
    ASSUME IInv, E!LogStep(Ctl), pc[Ctl] = "notifying", stage'[Ctl] = "raised",
           UNCHANGED sessionVars
    PROVE  Gone
<1>1. ~E!Idle(Ctl) /\ Ctl \in Procs
  BY LogStepFacts, Members DEF IInv
<1>2. req[Ctl] = E!Read
  BY <1>1, CtlInOperation
<1>3. ~E!InCriticalSection(Ctl)
  BY <1>1, <1>2, SameOperations DEF IInv, LogFits, LoadedFits
<1>4. stage \in [Procs -> E!Stages]
  BY LogTypes DEF IInv
<1>5. E!ReadUnlocked(Ctl)
  BY <1>2, <1>3
     DEF E!LogStep, E!InCriticalSection, E!Acquire, E!Load, E!LoadFails, E!New,
         E!Exists, E!Truncate, E!Write, E!Release
<1>6. file.state # "whole" /\ file \in E!Files
  BY <1>1, <1>4, <1>5, LogTypes DEF IInv, E!ReadUnlocked
<1>7. file.state # "absent"
  BY DEF IInv, FileExists
<1>8. file.state = "torn"
  BY <1>6, <1>7 DEF E!Files, E!Absent, E!Torn
<1>9. ASSUME NEW q \in Procs PROVE stage[q] # "truncated"
  <2>1. CASE q = Ctl
    BY <1>3, <2>1 DEF E!InCriticalSection
  <2>2. CASE q \in Workers
    <3>1. pc[q] \in {"done", "broken", "absent"}
      BY <2>2 DEF IInv, SessionFits
    <3>2. L!Idle(q)
      BY <2>2, <3>1 DEF IInv, WorkersFit, WorkerFits
    <3>3. QED
      BY <3>2 DEF L!Idle
  <2>3. QED
    BY <2>1, <2>2 DEF Procs
<1>10. QED
  BY <1>8, <1>9 DEF Gone

LEMMA CutOfLogStep ==
    ASSUME IInv, CutFits, NEW p \in Procs, L!LogStep(p), UNCHANGED sessionVars
    PROVE  CutFits'
<1>1. E!LogStep(p)
  BY SameOperations
<1>2. (Gone' => Gone) /\ (Gone /\ ~Gone' => req[p] = E!Wipe)
  BY <1>1, LogStepDamage DEF IInv
<1>3. UNCHANGED <<cutOff, keep, pc>>
  BY DEF sessionVars
<1>4. keep /\ cutOff => Gone'
  BY <1>1, <1>2, WipesUnkept DEF CutFits
<1>5. ASSUME pc[Ctl] = "notifying", stage'[Ctl] = "raised" PROVE cutOff
  <2>1. CASE p = Ctl
    BY <1>1, <1>5, <2>1, CtlReads DEF CutFits
  <2>2. CASE p # Ctl
    <3>1. stage'[Ctl] = stage[Ctl]
      BY <1>1, <2>2, LogStepFacts, Members DEF IInv
    <3>2. QED
      BY <1>5, <3>1 DEF CutFits
  <2>3. QED
    BY <2>1, <2>2
<1>6. QED
  BY <1>2, <1>3, <1>4, <1>5 DEF CutFits

LEMMA CutOfCrash ==
    ASSUME IInv, CutFits, NEW w \in Workers, Crash(w)
    PROVE  CutFits'
<1>1. /\ Gone => Gone'
      /\ stage[w] = "truncated" => Gone'
      /\ stage' = [stage EXCEPT ![w] = "idle"] /\ file' = file
  BY KillFacts, Members DEF IInv, Crash
<1>2. Gone' /\ stage[w] # "truncated" => Gone
  <2>1. stage \in [Procs -> E!Stages]
    BY LogTypes DEF IInv
  <2>2. QED
    BY <1>1, <2>1, Members DEF Gone
<1>3. cutOff' = (cutOff \/ stage[w] = "truncated") /\ keep' = keep
  BY DEF Crash
<1>4. pc[Ctl] = "session" /\ pc'[Ctl] = pc[Ctl]
  <2>1. pc \in [Procs -> CtlPlaces \cup WorkerPlaces] /\ pc' = [pc EXCEPT ![w] = "absent"]
    BY DEF IInv, TypeOK, Crash, Goto
  <2>2. pc[Ctl] = "session"
    BY WorkerUp DEF Crash
  <2>3. QED
    BY <2>1, <2>2, Members
<1>5. QED
  BY <1>1, <1>2, <1>3, <1>4 DEF CutFits

\* Nobody touches the file, and the controller does not come to raise.
LEMMA CutStays ==
    ASSUME CutFits, Quiet, UNCHANGED <<keep, cutOff>>,
           pc'[Ctl] = "notifying" /\ stage'[Ctl] = "raised" =>
               pc[Ctl] = "notifying" /\ stage[Ctl] = "raised",
           pc'[Ctl] = "unread" =>
               pc[Ctl] = "unread" \/ (pc[Ctl] = "notifying" /\ stage[Ctl] = "raised")
    PROVE  CutFits'
<1>1. Gone' <=> Gone
  BY DEF Quiet
<1>2. QED
  BY <1>1 DEF CutFits

LEMMA CutOfCtl ==
    ASSUME IInv, CutFits,
           \/ StartCommand \/ CommandFails \/ ControllerSessionStart \/ Schedule
           \/ EndSession \/ CatchTraceback \/ StartNotification \/ SendNotification
           \/ NotificationRefused \/ LogUnreadable
    PROVE  CutFits'
<1> USE DEF StartCommand, CommandFails, ControllerSessionStart, Schedule, EndSession,
            CatchTraceback, StartNotification, SendNotification, NotificationRefused,
            LogUnreadable
<1>1. UNCHANGED <<keep, cutOff>>
  OBVIOUS
<1>2. PICK place \in CtlPlaces :
        /\ pc' = [pc EXCEPT ![Ctl] = place]
        /\ place = "notifying" => stage'[Ctl] = "waiting"
        /\ place = "unread" => pc[Ctl] = "notifying" /\ stage[Ctl] = "raised"
  <2>1. stage \in [Procs -> E!Stages] /\ Ctl \in Procs
    BY LogTypes, Members DEF IInv
  <2>2. pc = [pc EXCEPT ![Ctl] = pc[Ctl]] /\ pc[Ctl] \in CtlPlaces
    BY DEF IInv, TypeOK, CtlFits
  <2>3. QED
    BY <2>1, <2>2 DEF Goto, CtlPlaces, L!Invoke
<1>3. pc'[Ctl] = place
  BY <1>2, Members DEF IInv, TypeOK
<1>4. Quiet
  <2>1. CASE UNCHANGED logVars
    BY <2>1, LogKept DEF IInv
  <2>2. CASE \E r \in Requested \cup {L!Create, L!Read} : L!Invoke(Ctl, r)
    BY <2>2, InvokeKept, Members DEF IInv
  <2>3. L!Wipe \in Requested
    BY DEF L!Wipe, Requested
  <2>4. QED
    BY <2>1, <2>2, <2>3, CommentFacts
<1>5. QED
  BY <1>1, <1>2, <1>3, <1>4, CutStays

LEMMA CutOfWorker ==
    ASSUME IInv, CutFits, NEW w \in Workers,
           \/ StartWorker(w) \/ WorkerSessionStart(w) \/ Collected(w)
           \/ \E t \in Tests : StartTest(w, t)
           \/ \E phases \in Outcomes : FinishTest(w, phases)
           \/ Record(w) \/ NextItem(w) \/ InternalError(w) \/ StopWorker(w)
    PROVE  CutFits'
<1> USE DEF StartWorker, WorkerSessionStart, Collected, StartTest, FinishTest, Record,
            NextItem, InternalError, StopWorker
<1>1. UNCHANGED <<keep, cutOff>>
  OBVIOUS
<1>2. pc'[Ctl] = pc[Ctl]
  BY Members DEF Goto, IInv, TypeOK
<1>3. Quiet /\ stage'[Ctl] = stage[Ctl]
  <2>1. CASE UNCHANGED logVars
    BY <2>1, LogKept DEF IInv, logVars
  <2>2. CASE \E r \in Requested \cup {L!Create, L!Read} : L!Invoke(w, r)
    <3>1. PICK r \in Requested \cup {L!Create, L!Read} : L!Invoke(w, r)
      BY <2>2
    <3>2. Quiet /\ stage' = [stage EXCEPT ![w] = "waiting"]
      BY <3>1, InvokeKept, Members DEF IInv
    <3>3. stage \in [Procs -> E!Stages]
      BY LogTypes DEF IInv
    <3>4. QED
      BY <3>2, <3>3, Members
  <2>3. L!Wipe \in Requested
    BY DEF L!Wipe, Requested
  <2>4. ASSUME Record(w) PROVE Head(owed[w]) \in Requested
    <3>1. owed[w] \in Seq({EntryOf(t, phase) : t \in Tests, phase \in Phases})
            /\ owed[w] # <<>>
      BY <2>4 DEF IInv, TypeOK
    <3>2. Head(owed[w]) \in {EntryOf(t, phase) : t \in Tests, phase \in Phases}
      BY <3>1
    <3>3. QED
      BY <3>2, EntryFacts
  <2>5. QED
    BY <2>1, <2>2, <2>3, <2>4
<1>4. QED
  BY <1>1, <1>2, <1>3, CutStays

LEMMA CutStep == IInv /\ CutFits /\ [Next]_vars => CutFits'
<1> SUFFICES ASSUME IInv, CutFits, [Next]_vars PROVE CutFits'
  OBVIOUS
<1>1. CASE CtlStep
  BY <1>1, CutOfCtl, CutOfLogStep, Members DEF CtlStep
<1>2. CASE \E w \in Workers : WorkerStep(w)
  BY <1>2, CutOfWorker, CutOfLogStep, Members DEF WorkerStep
<1>3. CASE \E w \in Workers : Crash(w)
  BY <1>3, CutOfCrash
<1>4. CASE UNCHANGED vars
  <2>1. Quiet /\ UNCHANGED <<keep, cutOff, pc, stage>>
    BY <1>4, LogKept DEF IInv, vars, logVars, sessionVars
  <2>2. QED
    BY <2>1, CutStays
<1>5. QED
  BY <1>1, <1>2, <1>3, <1>4 DEF Next

LEMMA CutInvariance == Spec => []CutFits
<1>1. QED
  BY Invariance, CutInit, CutStep, PTL DEF Spec

(***************************************************************************)
(* What the deaths of workers cost, however many die and whenever they do: *)
(* the notification makes up no failed report; with --keep-error-log the   *)
(* log lacks the entries of at most one test for each dead worker, unless  *)
(* one died between emptying the file and writing it: then the log stays   *)
(* torn to the end and nothing is sent.  Only such a death makes the log   *)
(* unreadable for send-notification.                                       *)
(***************************************************************************)
THEOREM CrashesCostTheirTest == Spec => []CrashCost
<1>1. IInv /\ CutFits => CrashCost
  <2> SUFFICES ASSUME IInv, CutFits, scheduled, pc[Ctl] \in Ends
               PROVE  /\ notice.sent => \A t \in Tests : NothingInvented(notice.log, t)
                      /\ keep /\ ~cutOff =>
                          /\ file.state = "whole"
                          /\ notice.sent => notice.log = file.log
                          /\ Cardinality({t \in Tests : ~Exact(file.log, t)}) <= crashes
                      /\ keep /\ cutOff => file.state = "torn" /\ ~notice.sent
                      /\ pc[Ctl] = "unread" => cutOff
    BY DEF CrashCost
  <2>1. /\ Current = file.log
        /\ Gone \/ file.state = "whole"
        /\ notice.sent => notice.log = file.log /\ file.state = "whole"
        /\ \A t \in Tests : AtMost(t, 0, 0)
    BY SettledAccounts
  <2>2. ASSUME notice.sent, NEW t \in Tests PROVE NothingInvented(notice.log, t)
    <3>1. InFailures(Current, t) \in Nat /\ InErrors(Current, t) \in Nat
      BY AccountTypes DEF IInv
    <3>2. QED
      BY <2>1, <2>2, <3>1 DEF AtMost, NothingInvented
  <2>3. ASSUME keep, ~cutOff
        PROVE  /\ file.state = "whole"
               /\ Cardinality({t \in Tests : ~Exact(file.log, t)}) <= crashes
    <3> DEFINE Missing == {t \in Tests : ~Exact(file.log, t)}
    <3>1. ~Gone /\ file.state = "whole"
      BY <2>1, <2>3 DEF CutFits
    <3>2. /\ IsFiniteSet(Lost) /\ Cardinality(Lost) <= crashes
          /\ Missing \subseteq Lost
      BY <2>1, <2>3, <3>1, SettledAccounts
    <3>3. IsFiniteSet(Missing) /\ Cardinality(Missing) <= Cardinality(Lost)
      BY <3>2, FS_Subset
    <3>4. /\ Cardinality(Lost) \in Nat /\ Cardinality(Missing) \in Nat /\ crashes \in Nat
      BY <3>2, <3>3, FS_CardinalityType DEF IInv, TypeOK
    <3>5. QED
      BY <3>1, <3>2, <3>3, <3>4
  <2>4. keep /\ cutOff => file.state = "torn" /\ ~notice.sent
    BY <2>1 DEF CutFits, Gone
  <2>5. pc[Ctl] = "unread" => cutOff
    BY DEF CutFits
  <2>6. QED
    BY <2>1, <2>2, <2>3, <2>4, <2>5
<1>2. QED
  BY <1>1, Invariance, CutInvariance, PTL
=============================================================================
