--------------------------- MODULE OzRunnerProofs ---------------------------
(***************************************************************************)
(* Proofs about the key sets that the threads of OzRunner.tla share, and   *)
(* the verdict on the test files, for any number of threads, files and     *)
(* exceptions.                                                             *)
(* At the end, proofs about the other part of the CI, Stands.tla.          *)
(***************************************************************************)
EXTENDS OzRunner, Stands, FiniteSetTheorems, SequenceTheorems, TLAPS

\* The types of what the threads share, and of what each of them has.
ThreadTypes ==
    /\ keysEnv \in Seq(Keys)
    /\ pc \in [Jobs -> Places]
    /\ keys \in [Jobs -> Keys \cup {NoKeys}]
    /\ raises \in Nat
    /\ poolFailed \in BOOLEAN

\* A thread has a key set exactly while its hardhat process may run.
KeysForHardhat == \A j \in Jobs : Using(j) <=> pc[j] = "hardhat"

IInv ==
    /\ ThreadTypes
    /\ KeysForHardhat
    /\ KeysAreExclusive
    /\ KeysAreConserved

Users == {j \in Jobs : Using(j)}

-----------------------------------------------------------------------------
LEMMA InitInv == Init => IInv
<1> SUFFICES ASSUME Init PROVE IInv
  OBVIOUS
<1>1. ThreadTypes
  BY PreparedKeysAreDistinct DEF Init, ThreadTypes, Places
<1>2. KeysForHardhat
  BY DEF Init, KeysForHardhat, Using
<1>3. KeysAreExclusive
  BY PreparedKeysAreDistinct, NoKeysIsNoKeySet DEF Init, KeysAreExclusive, Using
<1>4. KeysAreConserved
  <2>1. {j \in Jobs : Using(j)} = {}
    BY DEF Init, Using
  <2>2. Cardinality({j \in Jobs : Using(j)}) = 0
    BY <2>1, FS_EmptySet
  <2>3. Len(PreparedKeys) \in Nat
    BY PreparedKeysAreDistinct
  <2>4. QED
    BY <2>2, <2>3 DEF Init, KeysAreConserved
<1>5. QED
  BY <1>1, <1>2, <1>3, <1>4 DEF IInv

\* The threads that use a key set are finitely many.
LEMMA UsersFinite == IsFiniteSet(Users) /\ Cardinality(Users) \in Nat
BY KeysForEveryJob, FS_Subset, FS_CardinalityType DEF Users

LEMMA PopKeysInv ==
    ASSUME IInv, NEW j \in Jobs, PopKeys(j)
    PROVE  IInv'
<1> USE DEF IInv, PopKeys, Abandon
<1>1. /\ Head(keysEnv) \in Keys /\ Tail(keysEnv) \in Seq(Keys)
      /\ Len(keysEnv) \in Nat \ {0} /\ Len(Tail(keysEnv)) = Len(keysEnv) - 1
      /\ Head(keysEnv) = keysEnv[1]
      /\ \A i \in DOMAIN Tail(keysEnv) :
            i + 1 \in DOMAIN keysEnv /\ Tail(keysEnv)[i] = keysEnv[i + 1]
  BY DEF ThreadTypes
<1>2. ThreadTypes'
  BY <1>1 DEF ThreadTypes, Places
<1>3. KeysForHardhat'
  BY <1>1, NoKeysIsNoKeySet DEF ThreadTypes, KeysForHardhat, Using
<1>4. KeysAreExclusive'
  <2>1. \A k \in Jobs : keys[k] # Head(keysEnv)
    BY <1>1 DEF KeysAreExclusive, ThreadTypes
  <2>2. \A i \in DOMAIN Tail(keysEnv) : Tail(keysEnv)[i] # Head(keysEnv)
    <3>1. TAKE i \in DOMAIN Tail(keysEnv)
    <3>2. i + 1 # 1 /\ i + 1 \in DOMAIN keysEnv /\ 1 \in DOMAIN keysEnv
      BY <1>1 DEF ThreadTypes
    <3>3. QED
      BY <1>1, <3>2 DEF KeysAreExclusive
  <2>3. \A a, b \in DOMAIN Tail(keysEnv) : Tail(keysEnv)[a] = Tail(keysEnv)[b] => a = b
    <3>1. TAKE a, b \in DOMAIN Tail(keysEnv)
    <3>2. a \in Nat /\ b \in Nat
      BY <1>1
    <3>3. QED
      BY <1>1, <3>2 DEF KeysAreExclusive
  <2>4. \A k \in Jobs : \A i \in DOMAIN Tail(keysEnv) : Tail(keysEnv)[i] # keys[k]
    BY <1>1 DEF KeysAreExclusive
  <2>5. keysEnv' = Tail(keysEnv) /\ keys' = [keys EXCEPT ![j] = Head(keysEnv)]
    OBVIOUS
  <2>6. QED
    BY <2>1, <2>2, <2>3, <2>4, <2>5 DEF KeysAreExclusive, ThreadTypes, Using
<1>5. KeysAreConserved'
  <2>1. j \notin Users
    BY DEF Users, KeysForHardhat
  <2>2. Users' = Users \cup {j}
    BY <1>1, NoKeysIsNoKeySet DEF Users, Using, ThreadTypes
  <2>3. Cardinality(Users') = Cardinality(Users) + 1
    BY <2>1, <2>2, UsersFinite, FS_AddElement
  <2>4. Len(PreparedKeys) \in Nat
    BY PreparedKeysAreDistinct
  <2>5. QED
    BY <1>1, <2>3, <2>4, UsersFinite DEF KeysAreConserved, ThreadTypes, Users
<1>6. QED
  BY <1>2, <1>3, <1>4, <1>5

LEMMA AppendKeysInv ==
    ASSUME IInv, NEW j \in Jobs, AppendKeys(j)
    PROVE  IInv'
<1> USE DEF IInv, AppendKeys
<1>1. /\ keys[j] \in Keys
      /\ Append(keysEnv, keys[j]) \in Seq(Keys)
      /\ Len(keysEnv) \in Nat
      /\ Len(Append(keysEnv, keys[j])) = Len(keysEnv) + 1
      /\ DOMAIN Append(keysEnv, keys[j]) = 1..(Len(keysEnv) + 1)
      /\ Append(keysEnv, keys[j])[Len(keysEnv) + 1] = keys[j]
      /\ \A i \in DOMAIN keysEnv : Append(keysEnv, keys[j])[i] = keysEnv[i]
      /\ DOMAIN keysEnv = 1..Len(keysEnv)
  BY DEF ThreadTypes, KeysForHardhat, Using
<1>2. ThreadTypes'
  BY <1>1 DEF ThreadTypes, Places
<1>3. KeysForHardhat'
  BY <1>1 DEF ThreadTypes, KeysForHardhat, Using
<1>4. KeysAreExclusive'
  <2>1. \A a, b \in Jobs : a # b /\ Using(a)' => keys'[a] # keys'[b]
    BY DEF KeysAreExclusive, ThreadTypes, Using
  <2>2. \A a \in Jobs : keys'[a] # keys[j]
    BY <1>1, NoKeysIsNoKeySet DEF KeysAreExclusive, ThreadTypes, Using
  <2>3. \A a \in Jobs : \A i \in DOMAIN keysEnv : keysEnv[i] # keys'[a]
    <3>1. \A i \in DOMAIN keysEnv : keysEnv[i] # NoKeys
      BY <1>1, NoKeysIsNoKeySet DEF ThreadTypes
    <3>2. QED
      BY <3>1 DEF KeysAreExclusive, ThreadTypes
  <2>4. \A a \in Jobs : \A i \in DOMAIN keysEnv' : keysEnv'[i] # keys'[a]
    <3>1. \A i \in DOMAIN keysEnv' : i \in DOMAIN keysEnv \/ i = Len(keysEnv) + 1
      BY <1>1
    <3>2. QED
      BY <1>1, <2>2, <2>3, <3>1
  <2>5. \A a, b \in DOMAIN keysEnv' : keysEnv'[a] = keysEnv'[b] => a = b
    <3>1. \A i \in DOMAIN keysEnv' : i \in DOMAIN keysEnv \/ i = Len(keysEnv) + 1
      BY <1>1
    <3>2. \A i \in DOMAIN keysEnv : keysEnv[i] # keys[j]
      BY DEF KeysAreExclusive
    <3>3. QED
      BY <1>1, <3>1, <3>2 DEF KeysAreExclusive
  <2>6. QED
    BY <2>1, <2>4, <2>5 DEF KeysAreExclusive
<1>5. KeysAreConserved'
  <2>1. j \in Users
    BY DEF Users, KeysForHardhat
  <2>2. Users' = Users \ {j}
    BY DEF Users, Using, ThreadTypes
  <2>3. Cardinality(Users') = Cardinality(Users) - 1
    BY <2>1, <2>2, UsersFinite, FS_RemoveElement
  <2>4. Len(PreparedKeys) \in Nat
    BY PreparedKeysAreDistinct
  <2>5. QED
    BY <1>1, <2>3, <2>4, UsersFinite DEF KeysAreConserved, ThreadTypes, Users
<1>6. QED
  BY <1>2, <1>3, <1>4, <1>5

LEMMA PopFailsInv ==
    ASSUME IInv, NEW j \in Jobs, PopFails(j)
    PROVE  IInv'
<1> USE DEF IInv, PopFails, Abandon
<1>1. ~Using(j) /\ keys[j] = NoKeys
  BY DEF KeysForHardhat, Using
<1>2. keys' = keys
  BY <1>1 DEF ThreadTypes
<1>3. ThreadTypes'
  BY <1>2 DEF ThreadTypes, Places
<1>4. KeysForHardhat'
  BY <1>1, <1>2 DEF ThreadTypes, KeysForHardhat, Using
<1>5. KeysAreExclusive' /\ KeysAreConserved'
  <2>1. UNCHANGED <<keysEnv, keys, raises>>
    BY <1>2
  <2>2. Users' = Users
    BY <2>1 DEF Users, Using
  <2>3. KeysAreConserved'
    BY <2>1, <2>2 DEF KeysAreConserved, Users
  <2>4. KeysAreExclusive'
    BY <2>1 DEF KeysAreExclusive, Using
  <2>5. QED
    BY <2>3, <2>4
<1>6. QED
  BY <1>3, <1>4, <1>5

LEMMA RaiseInv ==
    ASSUME IInv, NEW j \in Jobs, Raise(j)
    PROVE  IInv'
<1> USE DEF IInv, Raise, Abandon
<1>1. ThreadTypes'
  BY DEF ThreadTypes, Places
<1>2. KeysForHardhat'
  BY DEF ThreadTypes, KeysForHardhat, Using
<1>3. KeysAreExclusive'
  <2>1. \A i \in DOMAIN keysEnv : keysEnv[i] # NoKeys
    BY NoKeysIsNoKeySet DEF ThreadTypes
  <2>2. QED
    BY <2>1 DEF KeysAreExclusive, ThreadTypes, Using
<1>4. KeysAreConserved'
  <2>1. j \in Users
    BY DEF Users, KeysForHardhat
  <2>2. Users' = Users \ {j}
    BY DEF Users, Using, ThreadTypes
  <2>3. Cardinality(Users') = Cardinality(Users) - 1
    BY <2>1, <2>2, UsersFinite, FS_RemoveElement
  <2>4. Len(PreparedKeys) \in Nat /\ Len(keysEnv) \in Nat
    BY PreparedKeysAreDistinct DEF ThreadTypes
  <2>5. QED
    BY <2>3, <2>4, UsersFinite DEF KeysAreConserved, ThreadTypes, Users
<1>5. QED
  BY <1>1, <1>2, <1>3, <1>4

\* The steps that touch no key set.
LEMMA OtherStepsInv ==
    ASSUME IInv,
           \/ \E j \in Jobs : TakeFile(j) \/ SaveLogs(j) \/ SaveFails(j)
           \/ StartRun \/ SetupFails \/ JoinPool \/ Analyze
           \/ UNCHANGED vars
    PROVE  IInv'
<1> USE DEF IInv
<1>1. UNCHANGED <<keysEnv, keys, raises>> /\ poolFailed' \in {poolFailed, TRUE}
  BY DEF TakeFile, SaveLogs, SaveFails, StartRun, SetupFails, JoinPool, Analyze, vars, threadVars
<1>2. /\ pc' \in [Jobs -> Places]
      /\ \A j \in Jobs : pc'[j] = "hardhat" <=> pc[j] = "hardhat"
  BY DEF TakeFile, SaveLogs, SaveFails, StartRun, SetupFails, JoinPool, Analyze, vars, threadVars,
         ThreadTypes, Places
<1>3. ThreadTypes' /\ KeysForHardhat'
  BY <1>1, <1>2 DEF ThreadTypes, KeysForHardhat, Using
<1>4. KeysAreExclusive' /\ KeysAreConserved'
  BY <1>1 DEF KeysAreExclusive, KeysAreConserved, Using
<1>5. QED
  BY <1>3, <1>4

LEMMA StepInv == IInv /\ [Next]_vars => IInv'
<1> SUFFICES ASSUME IInv, [Next]_vars PROVE IInv'
  OBVIOUS
<1>1. CASE \E j \in Jobs : ThreadStep(j)
  BY <1>1, PopKeysInv, PopFailsInv, RaiseInv, AppendKeysInv, OtherStepsInv
     DEF ThreadStep
<1>2. CASE StartRun \/ SetupFails \/ JoinPool \/ Analyze \/ UNCHANGED vars
  BY <1>2, OtherStepsInv
<1>3. QED
  BY <1>1, <1>2 DEF Next

LEMMA Invariance == Spec => []IInv
<1>1. QED
  BY InitInv, StepInv, PTL DEF Spec

(***************************************************************************)
(* No two threads of run_openzeppelin_tests use the same key set, and none *)
(* uses a set that is still in keys_env.                                   *)
(***************************************************************************)
THEOREM Exclusion == Spec => []KeysAreExclusive
<1>1. IInv => KeysAreExclusive
  BY DEF IInv
<1>2. QED
  BY <1>1, Invariance, PTL

(***************************************************************************)
(* Key sets are lost by exceptions in run_oz_file only.                    *)
(***************************************************************************)
THEOREM Conservation == Spec => []KeysAreConserved
<1>1. IInv => KeysAreConserved
  BY DEF IInv
<1>2. QED
  BY <1>1, Invariance, PTL

(***************************************************************************)
(* For any number of threads: of those about to call keys_env.pop(0), all  *)
(* but as many as key sets were lost find one; before an exception between *)
(* pop and append there is no IndexError.                                  *)
(***************************************************************************)
THEOREM PopIsSafe == Spec => []PopFindsKeys
<1>1. IInv => PopFindsKeys
  <2> SUFFICES ASSUME IInv PROVE PopFindsKeys
    OBVIOUS
  <2> DEFINE Popping == {j \in Jobs : pc[j] = "pop"}
  <2>1. Popping \cap Users = {} /\ Popping \cup Users \subseteq Jobs
    BY DEF IInv, KeysForHardhat, Users
  <2>2. IsFiniteSet(Popping) /\ IsFiniteSet(Users)
    BY <2>1, KeysForEveryJob, FS_Subset
  <2>3. Cardinality(Popping \cup Users) = Cardinality(Popping) + Cardinality(Users)
    <3>1. Cardinality(Popping \cap Users) = 0
      BY <2>1, FS_EmptySet
    <3>2. /\ Cardinality(Popping) \in Nat /\ Cardinality(Users) \in Nat
          /\ Cardinality(Popping \cup Users)
               = Cardinality(Popping) + Cardinality(Users) - Cardinality(Popping \cap Users)
      <4> HIDE DEF Popping
      <4>1. QED
        BY <2>2, FS_Union, FS_CardinalityType
    <3>3. QED
      BY <3>1, <3>2
  <2>4. Cardinality(Popping \cup Users) <= Cardinality(Jobs)
    BY <2>1, KeysForEveryJob, FS_Subset
  <2>5. Len(keysEnv) + Cardinality(Users) + raises = Cardinality(Jobs)
    BY KeysForEveryJob DEF IInv, KeysAreConserved, Users
  <2>6. /\ Cardinality(Popping) \in Nat /\ Cardinality(Users) \in Nat
        /\ Cardinality(Jobs) \in Nat /\ Len(keysEnv) \in Nat /\ raises \in Nat
    BY <2>2, KeysForEveryJob, FS_CardinalityType DEF IInv, ThreadTypes
  <2>7. QED
    BY <2>3, <2>4, <2>5, <2>6 DEF PopFindsKeys
<1>2. QED
  BY <1>1, Invariance, PTL

-----------------------------------------------------------------------------
(***************************************************************************)
(* The verdict: what a success of the commands says of the test files.     *)
(***************************************************************************)
\* A file that was handed out has its logs from this run, or a thread is at it,
\* or a call has raised.
HandedOut ==
    /\ next \in 1..(Len(Files) + 1)
    /\ pc \in [Jobs -> Places]
    /\ file = [j \in Jobs |-> file[j]]
    /\ \A j \in Jobs : pc[j] # "free" =>
         main = "pool" /\ \E i \in 1..(next - 1) : file[j] = Files[i]
    /\ \A i \in 1..(next - 1) :
         \/ Files[i] \in logged
         \/ poolFailed
         \/ \E j \in Jobs : pc[j] # "free" /\ file[j] = Files[i]

\* `oz analyze` comes after a complete run, or after a setup whose failure was
\* swallowed.
AnalyzedAsAWhole ==
    /\ main = "run" => next = 1
    /\ main = "analyze" => FileNames \subseteq logged \/ next = 1
    /\ exit \in {"none", "failed", "passed"}
    /\ exit # "none" => main = "over"
    /\ SuccessIsAllOrNothing

RanInv == HandedOut /\ AnalyzedAsAWhole

LEMMA FilesAreSeq ==
    /\ Len(Files) \in Nat /\ DOMAIN Files = 1..Len(Files)
    /\ \A i \in 1..Len(Files) : Files[i] \in FileNames
<1>1. Files \in Seq(FileNames)
  BY FilesAreListed DEF Files
<1> QED
  BY <1>1 DEF FileNames

\* parse_openzeppelin_results counts nothing if there are no logs.
LEMMA NothingPasses == Logged = {} => Passing = 0
<1> SUFFICES ASSUME Logged = {} PROVE Passing = 0
  OBVIOUS
<1>1. Logged = {}
  OBVIOUS
<1>2. SUBSET {} = {{}}
  OBVIOUS
<1> DEFINE Pick(s) == CHOOSE x \in s : TRUE
           Sum(g, s) == IF s = {} THEN 0 ELSE results[Pick(s)].passing + g[s \ {Pick(s)}]
           It == CHOOSE g : g = [s \in SUBSET {} |-> Sum(g, s)]
           Zero == [s \in SUBSET {} |-> 0]
<1>3. Zero = [s \in SUBSET {} |-> Sum(Zero, s)]
  BY <1>2
<1>4. It = [s \in SUBSET {} |-> Sum(It, s)]
  BY <1>3, Zenon
<1>5. It[{}] = 0
  BY <1>2, <1>4
<1> QED
  BY <1>1, <1>5 DEF Passing, MapThenSumSet, MapThenFoldSet

\* Without logs every version of OpenZeppelin is rejected.
LEMMA NothingIsRejected == ASSUME Logged = {}, NEW major PROVE Rejected(major)
BY NothingPasses, ThresholdsArePositive DEF Rejected

LEMMA InitRan == Init => RanInv
BY FilesAreSeq DEF Init, RanInv, HandedOut, AnalyzedAsAWhole, Places,
   SuccessIsAllOrNothing

\* While the pool runs there is no verdict.
LEMMA PoolHasNoVerdict ==
    ASSUME RanInv, main = "pool", UNCHANGED <<main, exit>>
    PROVE  AnalyzedAsAWhole'
BY DEF RanInv, AnalyzedAsAWhole, SuccessIsAllOrNothing

LEMMA TakeFileRan ==
    ASSUME RanInv, NEW j \in Jobs, TakeFile(j)
    PROVE  RanInv'
<1> USE FilesAreSeq DEF RanInv, TakeFile
<1>1. /\ next' = next + 1 /\ next' \in 1..(Len(Files) + 1)
      /\ pc' \in [Jobs -> Places] /\ file' = [k \in Jobs |-> file'[k]]
      /\ file'[j] = Files[next] /\ pc'[j] = "pop"
      /\ \A k \in Jobs \ {j} : file'[k] = file[k] /\ pc'[k] = pc[k]
  <2>1. pc \in [Jobs -> Places] /\ next \in 1..(Len(Files) + 1)
        /\ file = [k \in Jobs |-> file[k]]
    BY DEF HandedOut
  <2>2. /\ pc' = [pc EXCEPT ![j] = "pop"] /\ file' = [file EXCEPT ![j] = Files[next]]
        /\ next' = next + 1 /\ next <= Len(Files)
    OBVIOUS
  <2>3. pc' \in [Jobs -> Places] /\ pc'[j] = "pop" /\ \A k \in Jobs \ {j} : pc'[k] = pc[k]
    BY <2>1, <2>2 DEF Places
  <2>4. file' = [k \in Jobs |-> file'[k]] /\ file'[j] = Files[next]
        /\ \A k \in Jobs \ {j} : file'[k] = file[k]
    BY <2>1, <2>2
  <2>5. QED
    BY <2>1, <2>2, <2>3, <2>4
<1>2. \A k \in Jobs : pc'[k] # "free" =>
        main' = "pool" /\ \E i \in 1..(next' - 1) : file'[k] = Files[i]
  BY <1>1 DEF HandedOut
<1>3. \A i \in 1..(next' - 1) :
        \/ Files[i] \in logged'
        \/ poolFailed'
        \/ \E k \in Jobs : pc'[k] # "free" /\ file'[k] = Files[i]
  <2>1. TAKE i \in 1..(next' - 1)
  <2>2. CASE i = next
    BY <1>1, <2>2
  <2>3. CASE i \in 1..(next - 1)
    BY <1>1, <2>3 DEF HandedOut
  <2>4. next \in Nat
    BY DEF HandedOut
  <2> QED
    BY <1>1, <2>2, <2>3, <2>4
<1>4. AnalyzedAsAWhole'
  BY PoolHasNoVerdict
<1> QED
  BY <1>1, <1>2, <1>3, <1>4 DEF HandedOut

LEMMA CallRan ==
    ASSUME RanInv, NEW j \in Jobs, PopKeys(j) \/ AppendKeys(j)
    PROVE  RanInv'
<1> USE DEF RanInv, PopKeys, AppendKeys
<1>1. /\ pc' \in [Jobs -> Places] /\ pc[j] # "free" /\ pc'[j] # "free"
      /\ \A k \in Jobs \ {j} : pc'[k] = pc[k]
  <2>1. pc \in [Jobs -> Places]
    BY DEF HandedOut
  <2>2. PICK place \in {"hardhat", "save"} : pc' = [pc EXCEPT ![j] = place]
    OBVIOUS
  <2>3. pc[j] \in {"pop", "hardhat"}
    OBVIOUS
  <2>4. QED
    BY <2>1, <2>2, <2>3 DEF Places
<1>2. UNCHANGED <<main, next, file, logged, poolFailed, exit>>
  OBVIOUS
<1>3. \A k \in Jobs : pc'[k] # "free" <=> pc[k] # "free"
  BY <1>1
<1>4. HandedOut'
  BY <1>1, <1>2, <1>3 DEF HandedOut
<1>5. main = "pool"
  BY <1>1 DEF HandedOut
<1> QED
  BY <1>2, <1>4, <1>5, PoolHasNoVerdict

LEMMA AbandonRan ==
    ASSUME RanInv, NEW j \in Jobs, PopFails(j) \/ Raise(j) \/ SaveFails(j)
    PROVE  RanInv'
<1> USE DEF RanInv, PopFails, Raise, Abandon, SaveFails
<1>1. /\ pc' \in [Jobs -> Places] /\ pc[j] # "free" /\ pc'[j] = "free"
      /\ file' = [k \in Jobs |-> file'[k]]
      /\ \A k \in Jobs \ {j} : pc'[k] = pc[k] /\ file'[k] = file[k]
      /\ poolFailed' = TRUE
  BY DEF HandedOut, Places
<1>2. HandedOut'
  BY <1>1 DEF HandedOut
<1>3. main = "pool"
  BY <1>1 DEF HandedOut
<1> QED
  BY <1>2, <1>3, PoolHasNoVerdict

LEMMA SaveLogsRan ==
    ASSUME RanInv, NEW j \in Jobs, SaveLogs(j)
    PROVE  RanInv'
<1> USE DEF RanInv, SaveLogs
<1>1. PICK i \in 1..(next - 1) : file[j] = Files[i]
  BY DEF HandedOut
<1>2. main = "pool"
  BY <1>1 DEF HandedOut
<1>4. logged' = logged \cup {file[j]}
  OBVIOUS
<1>5. /\ pc' \in [Jobs -> Places] /\ pc'[j] = "free"
      /\ file' = [k \in Jobs |-> file'[k]]
      /\ \A k \in Jobs \ {j} : pc'[k] = pc[k] /\ file'[k] = file[k]
  BY DEF HandedOut, Places
<1>6. \A n \in 1..(next' - 1) :
        \/ Files[n] \in logged'
        \/ poolFailed'
        \/ \E k \in Jobs : pc'[k] # "free" /\ file'[k] = Files[n]
  <2>1. TAKE n \in 1..(next' - 1)
  <2>3. CASE Files[n] = file[j]
    BY <1>4, <2>3
  <2>4. CASE Files[n] # file[j]
    <3>1. Files[n] \in logged => Files[n] \in logged'
      BY <1>4
    <3>2. ASSUME NEW k \in Jobs, pc[k] # "free", file[k] = Files[n]
          PROVE  pc'[k] # "free" /\ file'[k] = Files[n]
      BY <1>5, <2>4, <3>2
    <3> QED
      BY <3>1, <3>2 DEF HandedOut
  <2> QED
    BY <2>3, <2>4
<1>7. HandedOut'
  BY <1>4, <1>5, <1>6 DEF HandedOut
<1> QED
  BY <1>2, <1>7, PoolHasNoVerdict

\* When all calls have returned and none has raised, every file has its logs.
LEMMA JoinPoolRan ==
    ASSUME RanInv, JoinPool
    PROVE  RanInv'
<1> USE DEF RanInv, JoinPool, FailRun, threadVars
<1>1. main = "pool" /\ exit = "none"
  BY DEF AnalyzedAsAWhole
<1>2. next = Len(Files) + 1 /\ \A j \in Jobs : pc[j] = "free"
  BY FilesAreSeq DEF HandedOut
<1>3. HandedOut'
  BY <1>2 DEF HandedOut
<1>4. CASE FailRun
  BY <1>1, <1>3, <1>4 DEF AnalyzedAsAWhole, SuccessIsAllOrNothing
<1>5. CASE ~poolFailed /\ main' = "analyze" /\ UNCHANGED <<log, exit>>
  <2>1. FileNames \subseteq logged
    BY <1>2, <1>5, FilesAreSeq DEF HandedOut, FileNames
  <2> QED
    BY <1>1, <1>3, <1>5, <2>1 DEF AnalyzedAsAWhole, SuccessIsAllOrNothing
<1> QED
  BY <1>4, <1>5

LEMMA StartRan ==
    ASSUME RanInv, StartRun \/ SetupFails
    PROVE  RanInv'
<1> USE DEF RanInv, StartRun, SetupFails, threadVars
<1>1. main = "run" /\ next = 1 /\ exit = "none" /\ \A j \in Jobs : pc[j] = "free"
  BY DEF HandedOut, AnalyzedAsAWhole
<1>2. HandedOut'
  BY <1>1 DEF HandedOut
<1>3. AnalyzedAsAWhole'
  BY <1>1 DEF AnalyzedAsAWhole, SuccessIsAllOrNothing
<1> QED
  BY <1>2, <1>3

LEMMA AnalyzeRan ==
    ASSUME RanInv, Analyze
    PROVE  RanInv'
<1> USE DEF RanInv, Analyze, threadVars
<1>1. main = "analyze" /\ main' = "over" /\ (FileNames \subseteq logged \/ next = 1)
      /\ \A j \in Jobs : pc[j] = "free"
  BY DEF HandedOut, AnalyzedAsAWhole
<1>2. HandedOut'
  BY <1>1 DEF HandedOut
<1>3. exit' = "failed" \/ (exit' = "passed" /\ Logged # {})
  BY NothingIsRejected
<1>4. Logged' = Logged /\ next' = next /\ logged' = logged
  BY DEF Logged
<1>5. AnalyzedAsAWhole'
  BY <1>1, <1>3, <1>4 DEF AnalyzedAsAWhole, SuccessIsAllOrNothing
<1> QED
  BY <1>2, <1>5

LEMMA StepRan == RanInv /\ [Next]_vars => RanInv'
<1> SUFFICES ASSUME RanInv, [Next]_vars PROVE RanInv'
  OBVIOUS
<1>1. CASE \E j \in Jobs : ThreadStep(j)
  BY <1>1, TakeFileRan, CallRan, AbandonRan, SaveLogsRan DEF ThreadStep
<1>2. CASE StartRun \/ SetupFails \/ JoinPool \/ Analyze
  BY <1>2, StartRan, JoinPoolRan, AnalyzeRan
<1>3. CASE UNCHANGED vars
  BY <1>3 DEF vars, threadVars, RanInv, HandedOut, AnalyzedAsAWhole, Logged,
     SuccessIsAllOrNothing
<1> QED
  BY <1>1, <1>2, <1>3 DEF Next

(***************************************************************************)
(* A success of `run oz` and `oz analyze` is never that of a part of the   *)
(* test files: either this run has written the logs of all of them,        *)
(* because the pool ends in an exception if a call raised one, or it has   *)
(* run none, and the logs of an earlier run were there to be judged.       *)
(***************************************************************************)
THEOREM SuccessIsOfAllFiles == Spec => []SuccessIsAllOrNothing
<1>1. RanInv => SuccessIsAllOrNothing
  BY DEF RanInv, AnalyzedAsAWhole
<1> QED
  BY <1>1, InitRan, StepRan, PTL DEF Spec

-----------------------------------------------------------------------------
(***************************************************************************)
(* The stands of the workflows, for any number of runs, events, branches   *)
(* and numbers of runs.                                                    *)
(***************************************************************************)
StandStages ==
    {"deploy", "apply", "create", "wait", "test", "logs", "destroy", "delete", "ended"}

\* A run is a record of what StandsInit gives it.
RunTypes ==
    /\ run = [r \in Runs |-> run[r]]
    /\ \A r \in Runs : run[r] \in
         [stage : StandStages, event : {run[r].event}, tags : {run[r].tags},
          ips : {run[r].ips}, refused : {run[r].refused}]

\* The servers that a run has built.
ServersOf(r) == {x \in servers : x.of = r}

\* What terraform knows is of runs of that number.
OfNumber(listed, r) == \A x \in listed : Number(x.of) = Number(r)

StateIsOwn ==
    /\ tfstate = [n \in {Number(r) : r \in Runs} \cup {0} |-> tfstate[n]]
    /\ known = [r \in Runs |-> known[r]]
    /\ \A r \in Runs : OfNumber(tfstate[Number(r)], r) /\ OfNumber(known[r], r)

\* Two runs of one number that are under way have met.
MeetingIsSeen ==
    \A r \in Runs \ met : \A s \in Runs \ {r} :
        UnderWay(r) /\ UnderWay(s) => Number(s) # Number(r)

\* The servers of a run that is on its own are known until they are gone.
IsKnown(r) ==
    /\ ~UnderWay(r) \/ run[r].stage = "create" => ServersOf(r) = {}
    /\ run[r].stage \in {"wait", "test", "logs", "destroy"} =>
         ServersOf(r) \subseteq tfstate[Number(r)]
    /\ run[r].stage = "delete" => ServersOf(r) \subseteq known[r]

StateIsComplete == \A r \in Runs \ (unlucky \cup met) : IsKnown(r)

\* What GitHub answers for a branch of a repository.
Answers(repo, branch, branches, refused) ==
    branch \in branches[repo] /\ <<repo, branch>> \notin refused

\* The tags are those that were chosen from the answers that GitHub gave.
ChosenTags(e, branches, refused) ==
    [repo \in Repos |->
        IF Answers(repo, Feature(e), branches, refused) THEN Feature(e)
        ELSE IF Answers(repo, Version(e), branches, refused) THEN Version(e)
        ELSE "latest"]

TagsAreChosen ==
    \A r \in Runs :
        run[r].stage \notin {"deploy", "ended"} =>
            run[r].tags = ChosenTags(run[r].event, exists, run[r].refused)

StandInv ==
    /\ RunTypes
    /\ StateIsOwn
    /\ MeetingIsSeen
    /\ StateIsComplete
    /\ TagsAreChosen
    /\ StandIsOwn

LEMMA StandInit == StandsInit => StandInv
<1> SUFFICES ASSUME StandsInit PROVE StandInv
  OBVIOUS
<1>1. PICK start \in Starts :
        run = [r \in Runs |-> [stage |-> IF start.event[r] = None THEN "ended" ELSE "deploy",
                               event |-> start.event[r], tags |-> NoTags, ips |-> {},
                               refused |-> {}]]
  BY DEF StandsInit
<1>2. \A r \in Runs : run[r].stage \in {"deploy", "ended"}
  BY <1>1
<1>3. RunTypes
  BY <1>1, <1>2 DEF RunTypes, StandStages
<1>4. \A r \in Runs : tfstate[Number(r)] = {} /\ known[r] = {}
  BY DEF StandsInit
<1>5. StateIsOwn
  BY <1>4 DEF StandsInit, StateIsOwn, OfNumber
<1>6. MeetingIsSeen /\ StateIsComplete
  BY <1>2 DEF StandsInit, MeetingIsSeen, StateIsComplete, IsKnown, ServersOf, UnderWay
<1>7. TagsAreChosen /\ StandIsOwn
  BY <1>2 DEF TagsAreChosen, StandIsOwn
<1>8. QED
  BY <1>3, <1>5, <1>6, <1>7 DEF StandInv

\* The step of a run to another stage leaves the other runs alone.
LEMMA RunGoes ==
    ASSUME RunTypes, NEW r \in Runs, NEW stage \in StandStages, Goes(r, stage)
    PROVE  /\ RunTypes'
           /\ \A q \in Runs \ {r} : run'[q] = run[q]
           /\ run'[r].stage = stage
           /\ run'[r].event = run[r].event /\ run'[r].tags = run[r].tags
           /\ run'[r].ips = run[r].ips /\ run'[r].refused = run[r].refused
<1>1. run' = [q \in Runs |-> IF q = r THEN [run[r] EXCEPT !.stage = stage] ELSE run[q]]
  BY DEF Goes, RunTypes
<1> DEFINE new == [run[r] EXCEPT !.stage = stage]
<1>2. new \in [stage : {stage}, event : {run[r].event}, tags : {run[r].tags},
               ips : {run[r].ips}, refused : {run[r].refused}]
  BY DEF RunTypes
<1> HIDE DEF new
<1>3. /\ \A q \in Runs \ {r} : run'[q] = run[q]
      /\ run'[r] = new
      /\ run' = [q \in Runs |-> run'[q]]
  BY <1>1 DEF new
<1>4. /\ run'[r].stage = stage /\ run'[r].event = run[r].event
      /\ run'[r].tags = run[r].tags /\ run'[r].ips = run[r].ips
      /\ run'[r].refused = run[r].refused
  BY <1>2, <1>3
<1>5. RunTypes'
  BY <1>2, <1>3, <1>4 DEF RunTypes
<1>6. QED
  BY <1>3, <1>4, <1>5

\* A run that takes a step, with its record after that.
StepOf(r, stage) ==
    /\ RunTypes'
    /\ \A q \in Runs \ {r} : run'[q] = run[q]
    /\ run'[r].stage = stage
    /\ run'[r].event = run[r].event

LEMMA ChosenStay ==
    ASSUME exists' = exists
    PROVE  \A q \in Runs : ChosenTags(run[q].event, exists, run[q].refused)'
                             = ChosenTags(run'[q].event, exists, run'[q].refused)
BY DEF ChosenTags, Answers, Feature, Version, Repos

\* Steps in which terraform does not run.
LEMMA RunOnly ==
    ASSUME StandInv, NEW r \in Runs, NEW stage \in StandStages, StepOf(r, stage),
           UNCHANGED <<exists, tfstate, servers, known, unlucky, met>>,
           \/ run[r].stage = "deploy" /\ stage = "apply"
           \/ /\ run[r].stage \in {"wait", "test", "logs"}
              /\ stage \in {"test", "logs", "destroy"}
              /\ stage = "test" => run[r].stage = "wait"
              /\ run'[r].ips = run[r].ips /\ run'[r].tags = run[r].tags,
           run'[r].tags = ChosenTags(run'[r].event, exists, run'[r].refused)
    PROVE  StandInv'
<1>1. RunTypes' /\ StateIsOwn'
  BY DEF StepOf, StandInv, StateIsOwn, OfNumber
<1>2. \A q \in Runs : UnderWay(q)' = UnderWay(q) /\ ServersOf(q)' = ServersOf(q)
  BY DEF StepOf, UnderWay, ServersOf
<1>3. MeetingIsSeen'
  BY <1>2 DEF StandInv, MeetingIsSeen
<1>4. StateIsComplete'
  BY <1>2 DEF StepOf, StandInv, StateIsComplete, IsKnown
<1>5. TagsAreChosen'
  BY ChosenStay DEF StepOf, StandInv, TagsAreChosen
<1>6. StandIsOwn'
  <2> SUFFICES ASSUME NEW q \in Runs \ met, run'[q].stage \in {"wait", "test"}
               PROVE  run'[q].ips = Stand(q)' /\ Stand(q)' \subseteq servers
    BY DEF StandIsOwn
  <2>1. run[q].stage \in {"wait", "test"} /\ run'[q].ips = run[q].ips
        /\ run'[q].tags = run[q].tags
    BY DEF StepOf
  <2>2. Stand(q)' = Stand(q)
    BY <2>1 DEF Stand, Server
  <2>3. QED
    BY <2>1, <2>2 DEF StandInv, StandIsOwn
<1>7. QED
  BY <1>1, <1>3, <1>4, <1>5, <1>6 DEF StandInv

\* Steps in which terraform reads its state.
LEMMA StateIsRead ==
    ASSUME StandInv, NEW r \in Runs, StartApply(r) \/ StartDestroy(r)
    PROVE  StandInv'
<1>1. PICK stage \in {"create", "delete"} :
        /\ run[r].stage = IF stage = "create" THEN "apply" ELSE "destroy"
        /\ Goes(r, stage)
        /\ known' = [known EXCEPT ![r] = tfstate[Number(r)]]
        /\ met' = IF stage = "create" THEN met \cup Meeting(r) ELSE met
        /\ UNCHANGED <<exists, tfstate, servers, unlucky>>
  BY DEF StartApply, StartDestroy, ReadState, At, Key
<1>2. stage \in StandStages
  BY DEF StandStages
<1>3. /\ StepOf(r, stage) /\ run'[r].tags = run[r].tags
      /\ run'[r].ips = run[r].ips /\ run'[r].refused = run[r].refused
  BY <1>1, <1>2, RunGoes DEF StandInv, StepOf
<1>4. /\ known' = [q \in Runs |-> known'[q]]
      /\ known'[r] = tfstate[Number(r)]
      /\ \A q \in Runs \ {r} : known'[q] = known[q]
  BY <1>1 DEF StandInv, StateIsOwn
<1>5. RunTypes' /\ StateIsOwn'
  BY <1>1, <1>3, <1>4 DEF StepOf, StandInv, StateIsOwn, OfNumber
<1>6. \A q \in Runs : ServersOf(q)' = ServersOf(q)
  BY <1>1 DEF ServersOf
<1>7. \A q \in Runs \ {r} : UnderWay(q)' = UnderWay(q)
  BY <1>3 DEF StepOf, UnderWay
<1>8. met \subseteq met'
  BY <1>1
<1>9. MeetingIsSeen'
  <2> SUFFICES ASSUME NEW q \in Runs \ met', NEW s \in Runs \ {q},
                      UnderWay(q)', UnderWay(s)', Number(s) = Number(q)
               PROVE  FALSE
    BY DEF MeetingIsSeen
  <2>1. CASE UnderWay(r)
    BY <1>7, <1>8, <2>1 DEF StandInv, MeetingIsSeen
  <2>2. CASE ~UnderWay(r)
    <3>1. met' = met \cup Meeting(r)
      BY <1>1, <2>2 DEF UnderWay
    <3>2. CASE q = r
      <4>1. s \in {t \in Runs \ {r} : Number(t) = Number(r) /\ UnderWay(t)}
        BY <1>7, <3>2
      <4>2. r \in Meeting(r)
        BY <4>1 DEF Meeting
      <4>3. QED
        BY <3>1, <3>2, <4>2
    <3>3. CASE q # r /\ s = r
      <4>1. q \in {t \in Runs \ {r} : Number(t) = Number(r) /\ UnderWay(t)}
        BY <1>7, <3>3
      <4>2. q \in Meeting(r)
        BY <4>1 DEF Meeting
      <4>3. QED
        BY <3>1, <4>2
    <3>4. CASE q # r /\ s # r
      BY <1>7, <1>8, <3>4 DEF StandInv, MeetingIsSeen
    <3>5. QED
      BY <3>2, <3>3, <3>4
  <2>3. QED
    BY <2>1, <2>2
<1>10. StateIsComplete'
  <2> SUFFICES ASSUME NEW q \in Runs \ (unlucky \cup met') PROVE IsKnown(q)'
    BY <1>1 DEF StateIsComplete
  <2>1. IsKnown(q)
    BY <1>8 DEF StandInv, StateIsComplete
  <2>2. CASE q = r
    <3>1. run'[r].stage = stage
      BY <1>3 DEF StepOf
    <3>2. CASE stage = "create"
      BY <1>1, <1>6, <2>1, <2>2, <3>1, <3>2 DEF IsKnown, UnderWay
    <3>3. CASE stage = "delete"
      BY <1>1, <1>4, <1>6, <2>1, <2>2, <3>1, <3>3 DEF IsKnown, UnderWay
    <3>4. QED
      BY <3>2, <3>3
  <2>3. CASE q # r
    BY <1>1, <1>3, <1>4, <1>6, <1>7, <2>1, <2>3 DEF IsKnown, StepOf
  <2>4. QED
    BY <2>2, <2>3
<1>11. TagsAreChosen'
  BY <1>1, <1>3, ChosenStay DEF StepOf, StandInv, TagsAreChosen
<1>12. StandIsOwn'
  <2> SUFFICES ASSUME NEW q \in Runs \ met', run'[q].stage \in {"wait", "test"}
               PROVE  run'[q].ips = Stand(q)' /\ Stand(q)' \subseteq servers
    BY <1>1 DEF StandIsOwn
  <2>1. q # r
    BY <1>3 DEF StepOf
  <2>2. Stand(q)' = Stand(q)
    BY <1>3, <2>1 DEF StepOf, Stand, Server
  <2>3. QED
    BY <1>3, <1>8, <2>1, <2>2 DEF StepOf, StandInv, StandIsOwn
<1>13. QED
  BY <1>5, <1>9, <1>10, <1>11, <1>12 DEF StandInv

\* Steps in which terraform replaces the servers that it knows.
LEMMA TerraformRuns ==
    ASSUME StandInv, NEW r \in Runs, NEW stage \in {"wait", "logs", "ended"},
           StepOf(r, stage), NEW new, NEW listed, OfNumber(listed, r),
           \A x \in new : x.of = r \/ x \in known[r] \cap servers,
           servers' = (servers \ known[r]) \cup new,
           tfstate' = [tfstate EXCEPT ![Number(r)] = listed],
           UNCHANGED <<exists, known, met>>,
           \A q \in Runs \ {r} : q \in unlucky' <=> q \in unlucky,
           r \notin unlucky' =>
               /\ r \notin unlucky
               /\ \A x \in new : x.of = r => x \in listed
               /\ stage = "ended" => new = {},
           run[r].stage = IF stage = "ended" THEN "delete" ELSE "create",
           stage # "ended" =>
               run'[r].tags = run[r].tags /\ run'[r].refused = run[r].refused,
           stage = "wait" => run'[r].ips = Stand(r) /\ new = Stand(r)
    PROVE  StandInv'
<1>1. /\ tfstate = [n \in {Number(q) : q \in Runs} \cup {0} |-> tfstate[n]]
      /\ \A q \in Runs : OfNumber(tfstate[Number(q)], q) /\ OfNumber(known[q], q)
  BY DEF StandInv, StateIsOwn
<1>2. /\ tfstate'[Number(r)] = listed
      /\ \A q \in Runs : Number(q) # Number(r) => tfstate'[Number(q)] = tfstate[Number(q)]
      /\ tfstate' = [n \in {Number(q) : q \in Runs} \cup {0} |-> tfstate'[n]]
  BY <1>1
<1>3. StateIsOwn'
  <2>1. \A q \in Runs : OfNumber(tfstate'[Number(q)], q)
    <3> SUFFICES ASSUME NEW q \in Runs PROVE OfNumber(tfstate'[Number(q)], q)
      OBVIOUS
    <3>1. CASE Number(q) = Number(r)
      BY <1>2, <3>1 DEF OfNumber
    <3>2. CASE Number(q) # Number(r)
      BY <1>1, <1>2, <3>2
    <3>3. QED
      BY <3>1, <3>2
  <2>2. QED
    BY <1>2, <2>1 DEF StandInv, StateIsOwn, OfNumber
<1>4. UnderWay(r) /\ \A q \in Runs \ {r} : UnderWay(q)' = UnderWay(q)
  BY DEF StepOf, UnderWay
<1>5. MeetingIsSeen'
  BY <1>4 DEF StandInv, MeetingIsSeen
<1>6. \A q \in Runs \ {r} :
        /\ ServersOf(q)' \subseteq ServersOf(q)
        /\ Number(q) # Number(r) => ServersOf(q)' = ServersOf(q)
  BY <1>1 DEF ServersOf, OfNumber
<1>7. \A q \in Runs \ (met \cup {r}) : UnderWay(q) => Number(q) # Number(r)
  BY <1>4 DEF StandInv, MeetingIsSeen
<1>8. StateIsComplete'
  <2> SUFFICES ASSUME NEW q \in Runs, q \notin unlucky' \cup met PROVE IsKnown(q)'
    BY DEF StateIsComplete
  <2>1. CASE q = r
    <3>1. IsKnown(r)
      BY <2>1 DEF StandInv, StateIsComplete
    <3>2. \A x \in ServersOf(r)' : x \in new \/ x \in ServersOf(r) \ known[r]
      BY DEF ServersOf
    <3>3. run'[r].stage = stage
      BY DEF StepOf
    <3>4. CASE stage = "ended"
      <4>1. ServersOf(r)' = {}
        BY <2>1, <3>1, <3>2, <3>4 DEF IsKnown
      <4>2. QED
        BY <2>1, <3>3, <3>4, <4>1 DEF IsKnown, UnderWay
    <3>5. CASE stage # "ended"
      <4>1. ServersOf(r) = {}
        BY <3>1, <3>5 DEF IsKnown
      <4>2. \A x \in ServersOf(r)' : x \in new /\ x.of = r
        BY <3>2, <4>1 DEF ServersOf
      <4>3. ServersOf(r)' \subseteq tfstate'[Number(r)]
        BY <1>2, <2>1, <4>2
      <4>4. QED
        BY <2>1, <3>3, <3>5, <4>3 DEF IsKnown, UnderWay
    <3>6. QED
      BY <3>4, <3>5
  <2>2. CASE q # r
    <3>1. IsKnown(q) /\ run'[q] = run[q] /\ known'[q] = known[q]
      BY <2>2 DEF StandInv, StateIsComplete, StepOf
    <3>2. UnderWay(q) => tfstate'[Number(q)] = tfstate[Number(q)]
      BY <1>2, <1>7, <2>2
    <3>3. run[q].stage \in {"wait", "test", "logs", "destroy"} => UnderWay(q)
      BY DEF UnderWay
    <3>4. UnderWay(q)' = UnderWay(q) /\ ServersOf(q)' \subseteq ServersOf(q)
      BY <1>4, <1>6, <2>2
    <3>5. QED
      BY <3>1, <3>2, <3>3, <3>4 DEF IsKnown
  <2>3. QED
    BY <2>1, <2>2
<1>9. TagsAreChosen'
  BY ChosenStay DEF StepOf, StandInv, TagsAreChosen
<1>10. StandIsOwn'
  <2> SUFFICES ASSUME NEW q \in Runs \ met, run'[q].stage \in {"wait", "test"}
               PROVE  run'[q].ips = Stand(q)' /\ Stand(q)' \subseteq servers'
    BY DEF StandIsOwn
  <2>1. CASE q = r
    <3>1. Stand(q)' = Stand(q)
      BY <2>1 DEF StepOf, Stand, Server
    <3>2. QED
      BY <2>1, <3>1 DEF StepOf
  <2>2. CASE q # r
    <3>1. run'[q] = run[q]
      BY <2>2 DEF StepOf
    <3>2. Stand(q)' = Stand(q) /\ Stand(q) \subseteq ServersOf(q) /\ run[q].ips = Stand(q)
      BY <3>1 DEF StandInv, StandIsOwn, Stand, Server, ServersOf
    <3>3. ServersOf(q)' = ServersOf(q)
      BY <1>6, <1>7, <2>2, <3>1 DEF UnderWay
    <3>4. QED
      BY <3>1, <3>2, <3>3 DEF ServersOf
  <2>3. QED
    BY <2>1, <2>2
<1>11. QED
  BY <1>3, <1>5, <1>8, <1>9, <1>10 DEF StepOf, StandInv

-----------------------------------------------------------------------------
LEMMA DeployInv ==
    ASSUME StandInv, NEW r \in Runs, deploy(r)
    PROVE  StandInv'
<1>1. PICK refused \in Refusals(run[r].event) :
        run' = [run EXCEPT ![r].stage = "apply",
                           ![r].refused = refused,
                           ![r].tags = [repo \in Repos |->
                                          Chosen(run[r].event, repo, refused)]]
  BY DEF deploy
<1> DEFINE tags == ChosenTags(run[r].event, exists, refused)
<1>2. tags = [repo \in Repos |-> Chosen(run[r].event, repo, refused)]
  BY DEF ChosenTags, Answers, Chosen, TagOf, is_branch_exist
<1> HIDE DEF tags
<1> DEFINE new == [run[r] EXCEPT !.stage = "apply", !.refused = refused, !.tags = tags]
<1>3. new \in [stage : {"apply"}, event : {run[r].event}, tags : {tags},
               ips : {run[r].ips}, refused : {refused}]
  BY DEF StandInv, RunTypes
<1>4. run' = [run EXCEPT ![r] = new]
  BY <1>1, <1>2, Zenon DEF StandInv, RunTypes
<1> HIDE DEF new
<1>5. /\ \A q \in Runs \ {r} : run'[q] = run[q]
      /\ run'[r] = new
      /\ run' = [q \in Runs |-> run'[q]]
  BY <1>4 DEF StandInv, RunTypes
<1>6. /\ run'[r].stage = "apply" /\ run'[r].event = run[r].event
      /\ run'[r].tags = tags /\ run'[r].ips = run[r].ips
      /\ run'[r].refused = refused
  BY <1>3, <1>5
<1>7. StepOf(r, "apply")
  BY <1>3, <1>5, <1>6 DEF StepOf, StandInv, RunTypes, StandStages
<1>8. run[r].stage = "deploy"
  BY DEF deploy, At
<1>9. run'[r].tags = ChosenTags(run'[r].event, exists, run'[r].refused)
  BY <1>6 DEF tags
<1>10. UNCHANGED <<exists, tfstate, servers, known, unlucky, met>> /\ "apply" \in StandStages
  BY DEF deploy, StandStages
<1>11. QED
  BY <1>7, <1>8, <1>9, <1>10, RunOnly

\* A run that goes on without terraform.
LEMMA GoesInv ==
    ASSUME StandInv, NEW r \in Runs,
           ProxyIsReady(r) \/ WaitTimesOut(r) \/ TestsEnd(r)
             \/ DownloadLogs(r)
    PROVE  StandInv'
<1>1. PICK stage \in {"test", "logs", "destroy"} :
        Goes(r, stage) /\ (stage = "test" => run[r].stage = "wait")
  BY DEF ProxyIsReady, WaitTimesOut, TestsEnd, DownloadLogs,
         At
<1>2. /\ UNCHANGED <<exists, tfstate, servers, known, unlucky, met>>
      /\ run[r].stage \in {"wait", "test", "logs"} /\ stage \in StandStages
  BY DEF ProxyIsReady, WaitTimesOut, TestsEnd, DownloadLogs,
         At, StandStages
<1>3. /\ StepOf(r, stage) /\ run'[r].tags = run[r].tags /\ run'[r].event = run[r].event
      /\ run'[r].ips = run[r].ips /\ run'[r].refused = run[r].refused
  BY <1>1, <1>2, RunGoes DEF StandInv, StepOf
<1>4. run'[r].tags = ChosenTags(run'[r].event, exists, run'[r].refused)
  BY <1>2, <1>3 DEF StandInv, TagsAreChosen
<1>5. QED
  BY <1>1, <1>2, <1>3, <1>4, RunOnly

LEMMA ServersAreOf ==
    ASSUME NEW r \in Runs
    PROVE  (\A x \in Stand(r) : x.of = r) /\ Server(r, "solana").of = r
BY DEF Stand, Server

\* What terraform leaves is of the run, or of one of the same number.
LEMMA UnfinishedIsOwn ==
    ASSUME StandInv, NEW r \in Runs, NEW created \in Unfinished(r)
    PROVE  /\ \A x \in created : x.of = r \/ x \in known[r] \cap servers
           /\ OfNumber(created, r)
BY ServersAreOf DEF Unfinished, OfNumber, StandInv, StateIsOwn

LEMMA AppliedInv ==
    ASSUME StandInv, NEW r \in Runs, Applied(r)
    PROVE  StandInv'
<1> DEFINE stand == Stand(r)
<1>1. /\ run[r].stage = "create" /\ UNCHANGED <<exists, known, unlucky, met>>
      /\ servers' = (servers \ known[r]) \cup stand
      /\ tfstate' = [tfstate EXCEPT ![Number(r)] = stand]
      /\ run' = [run EXCEPT ![r].stage = "wait", ![r].ips = stand]
  BY DEF Applied, Replaced, At, Key
<1>2. (\A x \in stand : x.of = r) /\ OfNumber(stand, r)
  BY ServersAreOf DEF OfNumber
<1> HIDE DEF stand
<1> DEFINE new == [run[r] EXCEPT !.stage = "wait", !.ips = stand]
<1>3. new \in [stage : {"wait"}, event : {run[r].event}, tags : {run[r].tags},
               ips : {stand}, refused : {run[r].refused}]
  BY DEF StandInv, RunTypes
<1>4. run' = [run EXCEPT ![r] = new]
  BY <1>1, <1>2, Zenon DEF StandInv, RunTypes
<1> HIDE DEF new
<1>5. /\ \A q \in Runs \ {r} : run'[q] = run[q]
      /\ run'[r] = new
      /\ run' = [q \in Runs |-> run'[q]]
  BY <1>4 DEF StandInv, RunTypes
<1>6. /\ run'[r].stage = "wait" /\ run'[r].event = run[r].event
      /\ run'[r].tags = run[r].tags /\ run'[r].ips = stand
      /\ run'[r].refused = run[r].refused
  BY <1>3, <1>5
<1>7. StepOf(r, "wait") 
  BY <1>3, <1>5, <1>6 DEF StepOf, StandInv, RunTypes, StandStages
<1>8. run'[r].ips = Stand(r) /\ stand = Stand(r)
  BY <1>6 DEF stand
<1>9. QED
  BY <1>1, <1>2, <1>6, <1>7, <1>8, TerraformRuns

LEMMA ApplyFailsInv ==
    ASSUME StandInv, NEW r \in Runs, ApplyFails(r) \/ ApplyIsKilled(r)
    PROVE  StandInv'
<1>0. PICK created \in Unfinished(r) :
        \E listed \in {created, tfstate[Number(r)]} :
            /\ Replaced(r, created, listed)
            /\ \/ listed = created /\ unlucky' = unlucky
               \/ unlucky' = unlucky \cup {r}
  BY DEF ApplyFails, ApplyIsKilled, Key
<1>1. PICK listed \in {created, tfstate[Number(r)]} :
        /\ Replaced(r, created, listed)
        /\ \/ listed = created /\ unlucky' = unlucky
           \/ unlucky' = unlucky \cup {r}
  BY <1>0
<1>2. OfNumber(listed, r) /\ \A x \in created : x.of = r \/ x \in known[r] \cap servers
  BY UnfinishedIsOwn DEF StandInv, StateIsOwn
<1>3. /\ servers' = (servers \ known[r]) \cup created
      /\ tfstate' = [tfstate EXCEPT ![Number(r)] = listed]
  BY <1>1 DEF Replaced, Key
<1>4. /\ run[r].stage = "create" /\ Goes(r, "logs") /\ "logs" \in StandStages
      /\ UNCHANGED <<exists, known, met>>
  BY DEF ApplyFails, ApplyIsKilled, At, StandStages
<1>5. StepOf(r, "logs") /\ run'[r].tags = run[r].tags /\ run'[r].refused = run[r].refused
  BY <1>4, RunGoes DEF StandInv, StepOf
<1>6. r \notin unlucky' => r \notin unlucky /\ \A x \in created : x \in listed
  BY <1>1
<1>7. \A q \in Runs \ {r} : q \in unlucky' <=> q \in unlucky
  BY <1>1
<1>8. QED
  BY <1>2, <1>3, <1>4, <1>5, <1>6, <1>7, TerraformRuns

LEMMA DestroyInv ==
    ASSUME StandInv, NEW r \in Runs, Destroy(r)
    PROVE  StandInv'
<1>1. PICK left \in {{}, known[r] \cap servers} :
        /\ Replaced(r, left, left)
        /\ unlucky' = IF left = {} THEN unlucky ELSE unlucky \cup {r}
  BY DEF Destroy
<1>2. OfNumber(left, r) /\ \A x \in left : x \in known[r] \cap servers
  BY DEF StandInv, StateIsOwn, OfNumber
<1>3. /\ run[r].stage = "delete" /\ Goes(r, "ended") /\ "ended" \in StandStages
      /\ UNCHANGED <<exists, known, met>>
  BY DEF Destroy, At, StandStages
<1>4. StepOf(r, "ended")
  BY <1>3, RunGoes DEF StandInv, StepOf
<1>5. r \notin unlucky' => r \notin unlucky /\ left = {}
  BY <1>1
<1>6. \A q \in Runs \ {r} : q \in unlucky' <=> q \in unlucky
  BY <1>1
<1>7. /\ servers' = (servers \ known[r]) \cup left
      /\ tfstate' = [tfstate EXCEPT ![Number(r)] = left]
  BY <1>1 DEF Replaced, Key
<1> DEFINE stage == "ended"
<1>8. /\ StepOf(r, stage) /\ stage \in {"wait", "logs", "ended"}
      /\ stage = "ended"
  BY <1>4
<1> HIDE DEF stage
<1>9. QED
  BY <1>2, <1>3, <1>5, <1>6, <1>7, <1>8, TerraformRuns

LEMMA StandStep == StandInv /\ [StandsNext]_standVars => StandInv'
<1> SUFFICES ASSUME StandInv, [StandsNext]_standVars PROVE StandInv'
  OBVIOUS
<1>1. CASE StandsNext
  BY <1>1, DeployInv, GoesInv, StateIsRead, AppliedInv, ApplyFailsInv, DestroyInv
     DEF StandsNext, Step, Build, Wait, TearDown
<1>2. CASE UNCHANGED standVars
  <2>1. UNCHANGED <<exists, run, tfstate, servers, known, unlucky, met>>
    BY <1>2 DEF standVars
  <2>2. RunTypes' /\ StateIsOwn' /\ MeetingIsSeen' /\ StateIsComplete'
    BY <2>1 DEF StandInv, RunTypes, StateIsOwn, MeetingIsSeen, StateIsComplete, IsKnown,
                OfNumber, UnderWay, ServersOf
  <2>3. TagsAreChosen'
    BY <2>1, ChosenStay DEF StandInv, TagsAreChosen
  <2>4. StandIsOwn'
    BY <2>1 DEF StandInv, StandIsOwn, Stand, Server
  <2>5. QED
    BY <2>2, <2>3, <2>4 DEF StandInv
<1>3. QED
  BY <1>1, <1>2

(***************************************************************************)
(* Each run of a workflow tests the servers that it has built itself, and  *)
(* no other run that builds or destroys meanwhile takes one of them away,  *)
(* unless one of the same number has a stand at the same time or has left  *)
(* one in the state of terraform.                                          *)
(***************************************************************************)
THEOREM StandsAreOwn == StandsSpec => []StandIsOwn
<1>1. StandInv => StandIsOwn
  BY DEF StandInv
<1> QED BY <1>1, StandInit, StandStep, PTL DEF StandsSpec

(***************************************************************************)
(* Wherever a run fails, none of its servers outlives it, unless terraform *)
(* was killed or failed to destroy them, or another run of the same number *)
(* shared its state.                                                       *)
(***************************************************************************)
THEOREM StandsAreDestroyed == StandsSpec => []NothingLeaks
<1>1. ASSUME StandInv PROVE NothingLeaks
  <2>1. \A r \in Runs \ (unlucky \cup met) : run[r].stage = "ended" => ServersOf(r) = {}
    BY <1>1 DEF StandInv, StateIsComplete, IsKnown, UnderWay
  <2>2. QED
    BY <2>1 DEF NothingLeaks, At, ServersOf
<1> QED BY <1>1, StandInit, StandStep, PTL DEF StandsSpec

(***************************************************************************)
(* The images of a stand are those of the feature branch, else of the      *)
(* version branch, else the latest, for each repository by itself, also    *)
(* when GitHub refuses an answer for another one.                          *)
(***************************************************************************)
THEOREM ImagesFollowBranches == StandsSpec => []FeatureIsUsed
<1>1. ASSUME StandInv PROVE FeatureIsUsed
  <2>1. \A r \in Runs : run[r].stage \notin {"deploy", "ended"} =>
          run[r].tags = ChosenTags(run[r].event, exists, run[r].refused)
    BY <1>1 DEF StandInv, TagsAreChosen
  <2>2. ASSUME NEW r \in Runs, run[r].stage \notin {"deploy", "ended"},
               NEW repo \in Repos
        PROVE  LET e == run[r].event
                   wanted == {b \in {Feature(e), Version(e)} \cap exists[repo] :
                                <<repo, b>> \notin run[r].refused}
                   tag == run[r].tags[repo]
               IN  /\ tag \in wanted \cup {"latest"}
                   /\ Feature(e) \in wanted => tag = Feature(e)
                   /\ Version(e) \in wanted =>
                        tag \in {Feature(e), Version(e)}
    <3> DEFINE feature == Feature(run[r].event)
               version == Version(run[r].event)
               tag == run[r].tags[repo]
               wanted == {b \in {feature, version} \cap exists[repo] :
                            <<repo, b>> \notin run[r].refused}
    <3>1. tag = IF feature \in wanted THEN feature
                ELSE IF version \in wanted THEN version ELSE "latest"
      BY <2>1, <2>2 DEF ChosenTags, Answers
    <3> HIDE DEF tag, feature, version, wanted
    <3>2. /\ tag \in wanted \cup {"latest"}
          /\ feature \in wanted => tag = feature
          /\ version \in wanted => tag \in {feature, version}
      BY <3>1
    <3>3. QED
      BY <3>2 DEF tag, feature, version, wanted
  <2>3. QED
    BY <2>2 DEF FeatureIsUsed
<1> QED BY <1>1, StandInit, StandStep, PTL DEF StandsSpec
=============================================================================
