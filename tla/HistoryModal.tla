---------------------------- MODULE HistoryModal ----------------------------
(***************************************************************************)
(* The HistoryModal of a browser: the jobs of a user, newest first, page   *)
(* by page, while panels create new ones.  The answers to its requests may *)
(* arrive in any order.                                                    *)
(***************************************************************************)
EXTENDS JobRows, Sequences

CONSTANTS
    PageSize,   \* historyPageSize
    Zone,       \* how far the clock of the web process is ahead of UTC
    Fetch       \* bound: the requests of the modal that can be under way

ASSUME ModalAssumption == PageSize \in Nat \ {0} /\ Zone \in Int

VARIABLES
    modal,      \* the HistoryModal
    fetch,      \* its requests
    crossed     \* history: it was opened with a request under way

modalVars == <<rowVars, modal, fetch, crossed>>

Hidden ==
    [open |-> FALSE, who |-> Nobody, list |-> << >>, more |-> FALSE, loading |-> FALSE,
     loadingMore |-> FALSE, there |-> {}]
Unsent ==
    [at |-> "none", first |-> TRUE, who |-> Nobody, before |-> 0, page |-> << >>,
     more |-> FALSE, there |-> {}]

ModalInit ==
    /\ RowsInit
    /\ modal = Hidden
    /\ fetch = [f \in Fetch |-> Unsent]
    /\ crossed = FALSE
-----------------------------------------------------------------------------
(* ORDER BY created_at DESC, id DESC *)
Newer(j, k) == job[j].at > job[k].at \/ (job[j].at = job[k].at /\ j > k)

(* Mutant: only the time is compared. *)
OlderInTime(j, k) == job[j].at < job[k].at + Zone

(* The cursor is the time of the last job as the server has written it, in  *)
(* its own time zone and marked as UTC, and its id.                         *)
Older(j, k) ==
    \/ job[j].at < job[k].at + Zone
    \/ job[j].at = job[k].at + Zone /\ j < k

Ordered(S) ==
    [n \in 1..Cardinality(S) |->
       CHOOSE j \in S : Cardinality({k \in S : Newer(k, j)}) = n - 1]

(* The elements of s at the places in S, in their order. *)
Kept(s, S) ==
    [n \in 1..Cardinality(S) |-> s[CHOOSE k \in S : Cardinality({m \in S : m < k}) = n - 1]]

Min2(m, n) == IF m < n THEN m ELSE n

InFlight == {f \in Fetch : fetch[f].at # "none"}
Ask(f, request) == fetch' = [fetch EXCEPT ![f] = request]

(* loadHistory, whenever the modal is opened. *)
Open(u, f) ==
    /\ ~modal.open /\ fetch[f].at = "none"
    /\ modal' = [modal EXCEPT !.open = TRUE, !.who = u, !.loading = TRUE]
    /\ Ask(f, [Unsent EXCEPT !.at = "asked", !.who = u])
    /\ crossed' = (InFlight # {})
    /\ UNCHANGED rowVars

Hide ==
    /\ modal.open
    /\ modal' = [modal EXCEPT !.open = FALSE]
    /\ UNCHANGED <<rowVars, fetch, crossed>>

(* loadMore *)
LoadMore(f) ==
    /\ modal.open /\ modal.more /\ ~modal.loading /\ ~modal.loadingMore
    /\ modal.list # << >> /\ fetch[f].at = "none"
    /\ modal' = [modal EXCEPT !.loadingMore = TRUE]
    /\ Ask(f, [Unsent EXCEPT !.at = "asked", !.first = FALSE, !.who = modal.who,
                             !.before = modal.list[Len(modal.list)]])
    /\ UNCHANGED <<rowVars, crossed>>

(* getHistoryForUser: one row more than a page is asked for. *)
Serve(f) ==
    /\ fetch[f].at = "asked"
    /\ LET before == fetch[f].before
           rows == Ordered({j \in JobsOf(fetch[f].who) : before # 0 => Older(j, before)})
           got == SubSeq(rows, 1, Min2(Len(rows), PageSize + 1))
       IN  Ask(f, [fetch[f] EXCEPT !.at = "answered", !.more = Len(got) > PageSize,
                     !.page = SubSeq(got, 1, Min2(Len(got), PageSize)),
                     !.there = JobsOf(fetch[f].who)])
    /\ UNCHANGED <<rowVars, modal, crossed>>

InList(j) == \E n \in DOMAIN modal.list : modal.list[n] = j

Receive(f) ==
    /\ fetch[f].at = "answered"
    /\ LET r == fetch[f]
           fresh == {n \in DOMAIN r.page : ~InList(r.page[n])}
       IN
       modal' = IF r.first
                THEN [modal EXCEPT !.list = r.page, !.more = r.more, !.loading = FALSE,
                                   !.there = r.there]
                ELSE [modal EXCEPT !.list = @ \o Kept(r.page, fresh),
                                   !.more = r.more, !.loadingMore = FALSE]
    /\ Ask(f, Unsent)
    /\ UNCHANGED <<rowVars, crossed>>

FetchFails(f) ==
    /\ fetch[f].at # "none" /\ Fault
    /\ modal' = IF fetch[f].first
                THEN [modal EXCEPT !.list = << >>, !.more = FALSE, !.loading = FALSE, !.there = {}]
                ELSE [modal EXCEPT !.loadingMore = FALSE]
    /\ Ask(f, Unsent)
    /\ UNCHANGED <<job, task, built, strayed, crossed>>
(* A panel creates a job: InitJob, or the first statement of Synthesize. *)
NewJob(u, j) ==
    /\ ~Exists(j)
    /\ Ensure(u, j)
    /\ UNCHANGED <<task, built, strayed, faults, modal, fetch, crossed>>
-----------------------------------------------------------------------------
ModalNext ==
    \/ \E f \in Fetch :
          \/ \E u \in User : Open(u, f)
          \/ LoadMore(f) \/ Serve(f) \/ Receive(f) \/ FetchFails(f)
    \/ Hide
    \/ \E u \in User, j \in Job : NewJob(u, j)

ModalSpec == ModalInit /\ [][ModalNext]_modalVars
-----------------------------------------------------------------------------
(* However the jobs come and the pages are asked for: the list is of the    *)
(* user it was opened for, newest first, without gaps and repetitions, and  *)
(* misses a job that was there when it was opened only if that one is older *)
(* than its end and there is more to load.  Two requests for lists that     *)
(* overlap are another matter (loadHistory, loadMore, getHistoryForUser).   *)
PagesMissNothing ==
    ~crossed /\ ~modal.loading =>
       /\ \A n \in DOMAIN modal.list :
             /\ job[modal.list[n]].user = modal.who
             /\ n > 1 => Newer(modal.list[n - 1], modal.list[n])
       /\ \A j \in modal.there :
             \/ InList(j)
             \/ modal.more /\ \A n \in DOMAIN modal.list : Newer(modal.list[n], j)
=============================================================================
