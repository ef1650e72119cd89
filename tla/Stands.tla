-------------------------------- MODULE Stands --------------------------------
(***************************************************************************)
(* The stands of the CI workflows: a run builds one with terraform         *)
(* (clickfile.py infra deploy), waits for its proxy, tests, downloads the  *)
(* logs and destroys it, whatever happened before.  Runs of different      *)
(* workflows go on at the same time, some of them with the same number,    *)
(* and terraform does not lock its state (hetzner/provider.tf).            *)
(***************************************************************************)
EXTENDS Naturals, FiniteSets

CONSTANTS
    Runs,        \* runs of workflows
    Number(_),   \* github.run_number, which every workflow counts for itself
    Starts,      \* [exists, event]: the branches that exist in the repositories, and what
                 \* starts each run, if anything: the branches [current, head, base]
    VersionLike, \* branches that match VERSION_BRANCH_TEMPLATE
    Merges,      \* the names of merge refs, such as "7/merge"
    None

VARIABLES
    exists,   \* the branches of each repository
    run,      \* what each run does, with the tags and addresses it has
    tfstate,  \* the terraform state: the servers that it lists under each key
    servers,  \* the servers that exist
    known,    \* the state that terraform has read for each run
    unlucky,  \* runs whose terraform was killed, or failed to destroy
    met       \* history: runs that shared the state with another run of their number

standVars == <<exists, run, tfstate, servers, known, unlucky, met>>

-----------------------------------------------------------------------------
Repos == {"proxy", "evm", "faucet"}

\* In the order in which terraform creates them.
Kinds == {"solana", "proxy"}

\* Mutant: every run has the same state.
SameKey(r) == 0

\* TFSTATE_KEY
Key(r) == Number(r)

NoTags == [repo \in Repos |-> None]

StandsInit ==
    /\ \E start \in Starts :
         /\ exists = start.exists
         /\ run = [r \in Runs |-> [stage |-> IF start.event[r] = None THEN "ended" ELSE "deploy",
                                   event |-> start.event[r], tags |-> NoTags, ips |-> {},
                                   refused |-> {}]]
    /\ tfstate = [n \in {Number(r) : r \in Runs} \cup {0} |-> {}]
    /\ servers = {}
    /\ known = [r \in Runs |-> {}]
    /\ unlucky = {}
    /\ met = {}

At(r, stage) == run[r].stage = stage

Goes(r, stage) == run' = [run EXCEPT ![r].stage = stage]

-----------------------------------------------------------------------------
\* is_branch_exist: any other answer of GitHub than 200 means that there is none, also
\* if GitHub refuses to answer.
is_branch_exist(repo, branch, refused) == branch \in exists[repo] /\ <<repo, branch>> \notin refused

\* The feature branch that deploy asks for first.
Feature(e) == IF e.current \notin Merges \cup {"develop"} THEN e.current ELSE e.head

Version(e) ==
    IF e.base \in VersionLike THEN e.base
    ELSE IF e.current \in VersionLike THEN e.current ELSE None

\* Mutant: a tag that was found is replaced by the version.
TagOfVersion(e, feature, version) ==
    IF version THEN Version(e) ELSE IF feature THEN Feature(e) ELSE "latest"

TagOf(e, feature, version) ==
    IF feature THEN Feature(e) ELSE IF version THEN Version(e) ELSE "latest"

Chosen(e, repo, refused) ==
    TagOf(e, is_branch_exist(repo, Feature(e), refused), is_branch_exist(repo, Version(e), refused))

\* Bound: GitHub refuses one answer of each run.
Refusals(e) == {{}} \cup {{<<repo, branch>>} : repo \in Repos, branch \in {Feature(e), Version(e)} \ {None}}

deploy(r) ==
    /\ At(r, "deploy")
    /\ \E refused \in Refusals(run[r].event) :
         run' = [run EXCEPT ![r].stage = "apply",
                            ![r].refused = refused,
                            ![r].tags = [repo \in Repos |-> Chosen(run[r].event, repo, refused)]]
    /\ UNCHANGED <<exists, tfstate, servers, known, unlucky, met>>

-----------------------------------------------------------------------------
\* From the first look at the state to the end of destroy.
UnderWay(r) == run[r].stage \in {"create", "wait", "test", "logs", "destroy", "delete"}

\* The runs that share the state from now on: two that are under way at the same time,
\* or one that finds what an earlier one has left.
Meeting(r) ==
    LET others == {s \in Runs \ {r} : Number(s) = Number(r) /\ UnderWay(s)}
    IN  IF others = {} /\ tfstate[Key(r)] = {} THEN {} ELSE {r} \cup others

\* terraform reads the state before it builds, and before it destroys.
ReadState(r, before, after) ==
    /\ At(r, before)
    /\ known' = [known EXCEPT ![r] = tfstate[Key(r)]]
    /\ Goes(r, after)
    /\ UNCHANGED <<exists, tfstate, servers, unlucky>>

StartApply(r) == ReadState(r, "apply", "create") /\ met' = met \cup Meeting(r)

StartDestroy(r) == ReadState(r, "destroy", "delete") /\ UNCHANGED met

Server(r, kind) == [of |-> r, kind |-> kind, tags |-> run[r].tags]

Stand(r) == {Server(r, kind) : kind \in Kinds}

\* terraform apply replaces the servers that it knows by those that are asked for.
Replaced(r, created, listed) ==
    /\ servers' = (servers \ known[r]) \cup created
    /\ tfstate' = [tfstate EXCEPT ![Key(r)] = listed]

Applied(r) ==
    /\ At(r, "create")
    /\ Replaced(r, Stand(r), Stand(r))
    /\ run' = [run EXCEPT ![r].stage = "wait", ![r].ips = Stand(r)]
    /\ UNCHANGED <<exists, known, unlucky, met>>

\* Where terraform may stop: before it removes a server, or when none, one or all of the
\* new ones are there.
Unfinished(r) == {known[r] \cap servers, {}, {Server(r, "solana")}, Stand(r)}

\* The return code is not 0: what there is is in the state, there are no addresses.
ApplyFails(r) ==
    /\ At(r, "create")
    /\ \E created \in Unfinished(r) : Replaced(r, created, created)
    /\ Goes(r, "logs")
    /\ UNCHANGED <<exists, known, unlucky, met>>

\* After 15 minutes, or because a newer run of the branch cancels it: the state
\* is not written.
ApplyIsKilled(r) ==
    /\ At(r, "create")
    /\ \E created \in Unfinished(r) : Replaced(r, created, tfstate[Key(r)])
    /\ unlucky' = unlucky \cup {r}
    /\ Goes(r, "logs")
    /\ UNCHANGED <<exists, known, met>>

\* Wait until proxy is ready.
ProxyIsReady(r) ==
    /\ At(r, "wait")
    /\ Goes(r, "test")
    /\ UNCHANGED <<exists, tfstate, servers, known, unlucky, met>>

WaitTimesOut(r) ==
    /\ At(r, "wait")
    /\ Goes(r, "logs")
    /\ UNCHANGED <<exists, tfstate, servers, known, unlucky, met>>

\* The tests pass, fail or are cancelled.
TestsEnd(r) ==
    /\ At(r, "test")
    /\ Goes(r, "logs")
    /\ UNCHANGED <<exists, tfstate, servers, known, unlucky, met>>

\* Mutant: the stand is destroyed only if its logs could be downloaded.
LogsFirst(r) ==
    /\ At(r, "logs")
    /\ Goes(r, IF run[r].ips # {} THEN "destroy" ELSE "ended")
    /\ UNCHANGED <<exists, tfstate, servers, known, unlucky, met>>

\* download_remote_docker_logs raises without addresses; the next step is always() taken.
DownloadLogs(r) ==
    /\ At(r, "logs")
    /\ Goes(r, "destroy")
    /\ UNCHANGED <<exists, tfstate, servers, known, unlucky, met>>

\* destroy_infrastructure: the return code is logged, and nobody looks at it.
Destroy(r) ==
    /\ At(r, "delete")
    /\ \E left \in {{}, known[r] \cap servers} :
         /\ Replaced(r, left, left)
         /\ unlucky' = IF left = {} THEN unlucky ELSE unlucky \cup {r}
    /\ Goes(r, "ended")
    /\ UNCHANGED <<exists, known, met>>

-----------------------------------------------------------------------------
Build(r) == StartApply(r) \/ Applied(r) \/ ApplyFails(r) \/ ApplyIsKilled(r)
Wait(r) == ProxyIsReady(r) \/ WaitTimesOut(r)
TearDown(r) == DownloadLogs(r) \/ StartDestroy(r) \/ Destroy(r)
Step(r) == deploy(r) \/ Build(r) \/ Wait(r) \/ TestsEnd(r) \/ TearDown(r)

StandsNext == \E r \in Runs : Step(r)

StandsSpec == StandsInit /\ [][StandsNext]_standVars

-----------------------------------------------------------------------------
(***************************************************************************)
(* A run tests its own stand: as long as it waits or tests, both servers   *)
(* exist at the addresses it has, with the images that it chose.  Neither  *)
(* the runs that are built nor those that are destroyed meanwhile change   *)
(* them (infrastructure.py deploy_infrastructure, destroy_infrastructure). *)
(* The state is named after github.run_number (basic.yml:88), which every  *)
(* workflow counts for itself: a run whose number another workflow uses    *)
(* tests its own stand too, unless the other one has a stand at the same   *)
(* time, or has left one in the state.                                     *)
(***************************************************************************)
StandIsOwn ==
    \A r \in Runs \ met : run[r].stage \in {"wait", "test"} => run[r].ips = Stand(r) /\ Stand(r) \subseteq servers

(***************************************************************************)
(* No server outlives the run that built it, wherever that failed, unless  *)
(* terraform was killed while it built, failed to destroy, or shared its   *)
(* state with a run of another workflow at the same time.                  *)
(***************************************************************************)
NothingLeaks ==
    \A r \in Runs \ (unlucky \cup met) : At(r, "ended") => \A server \in servers : server.of # r

(***************************************************************************)
(* A branch that exists is used, the feature before the version, and the   *)
(* version before latest (clickfile.py:1004: "use feature branch or        *)
(* version tag as tag for proxy, evm and faucet images or use latest").  A *)
(* repository for which GitHub refuses to answer falls back to another     *)
(* branch that exists, without a notice, but no other repository does.     *)
(***************************************************************************)
FeatureIsUsed ==
    \A r \in Runs : run[r].stage \notin {"deploy", "ended"} =>
      \A repo \in Repos :
        LET e == run[r].event
            wanted == {b \in {Feature(e), Version(e)} \cap exists[repo] : <<repo, b>> \notin run[r].refused}
            tag == run[r].tags[repo]
        IN  /\ tag \in wanted \cup {"latest"}
            /\ Feature(e) \in wanted => tag = Feature(e)
            /\ Version(e) \in wanted => tag \in {Feature(e), Version(e)}
=============================================================================
