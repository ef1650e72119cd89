------------------------------ MODULE LogModel ------------------------------
(***************************************************************************)
(* The data of utils/error_log.py: the ErrorLogModel kept in the file      *)
(* click_cmd_err.log, the changes the ErrorLog methods make to it and what *)
(* its readers compute from it.                                            *)
(***************************************************************************)
EXTENDS Naturals, Sequences

CONSTANTS
    Groups,     \* the test groups (utils/types.py: TestGroup)
    Names,      \* the names of tests
    Texts,      \* the texts of comments
    NoKey       \* a group that is not a key of the dict

ASSUME NoKeyIsNoList == NoKey \notin Seq(Names)

(***************************************************************************)
(* failures and errors are defaultdicts: a group is a key of them once     *)
(* something, even an empty list, was put under it.                        *)
(***************************************************************************)
Tables == [Groups -> Seq(Names) \cup {NoKey}]

Logs == [failures : Tables, errors : Tables, comments : Seq(Texts)]

EmptyTable == [g \in Groups |-> NoKey]
EmptyLog == [failures |-> EmptyTable, errors |-> EmptyTable, comments |-> <<>>]

\* defaultdict(list)[group]
ListOf(table, group) == IF table[group] = NoKey THEN <<>> ELSE table[group]

\* defaultdict(list)[group].extend(names)
Extend(table, group, names) ==
    [table EXCEPT ![group] = ListOf(table, group) \o names]

(***************************************************************************)
(* The requests that add to the log: add_failure and add_failures (one     *)
(* name or several), add_error, add_comment.                               *)
(***************************************************************************)
Entries == [kind : {"failures", "errors"}, group : Groups, names : Seq(Names)]
Remarks == [kind : {"comment"}, text : Texts]
Additions == Entries \cup Remarks

\* The log after the body of a `with self._update() as log` block.
Apply(r, l) ==
    CASE r.kind = "failures" -> [l EXCEPT !.failures = Extend(@, r.group, r.names)]
      [] r.kind = "errors"   -> [l EXCEPT !.errors = Extend(@, r.group, r.names)]
      [] r.kind = "comment"  -> [l EXCEPT !.comments = Append(@, r.text)]

(***************************************************************************)
(* The readers.  has_logs asks for keys, get_count_by_group for entries.   *)
(***************************************************************************)
HasLogs(l) == \E g \in Groups : l.failures[g] # NoKey \/ l.errors[g] # NoKey

Count(l, group) == Len(ListOf(l.failures, group)) + Len(ListOf(l.errors, group))

\* The keys that get_count_by_group returns.
GroupsWithEntries(l) == {g \in Groups : Count(l, g) > 0}

CountByGroup(l) == [g \in GroupsWithEntries(l) |-> Count(l, g)]
=============================================================================
