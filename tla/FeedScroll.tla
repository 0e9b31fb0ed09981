----------------------------- MODULE FeedScroll -----------------------------
(***************************************************************************)
(* A user scrolls down the blogs of those he follows: the page of          *)
(* index.html asks for what lies below the last id it has                  *)
(* (queryFollowBlogs), the service answers a page from the database        *)
(* (BlogServiceImpl.queryBlogOfFollow), while blogs are saved and deleted. *)
(* Ids are handed out in order, but rows may appear in any order.          *)
(***************************************************************************)
EXTENDS Naturals, FiniteSets

CONSTANTS
    MaxBlog,    \* bound: the last id
    PageSize,   \* MAX_PAGE_SIZE
    FeedRequest \* requests the page can have on their way

ASSUME FeedConstants == MaxBlog \in Nat /\ PageSize \in Nat \ {0}

BlogId == 1..MaxBlog

VARIABLES
    posted, deleted, \* tb_blog, the rows of those the user follows; ids not used again
    lastId,      \* followLastId of the page, 0 at first
    shown,       \* followBlogs: how often each blog is on the page
    request,     \* requests: their cursor, or the page they carry back
    steady,      \* history: blogs there from the beginning and never deleted
    doubled      \* history: two requests were on their way at once

feedVars == <<posted, deleted, lastId, shown, request, steady, doubled>>

Idle == [kind |-> "idle", cursor |-> 0, page |-> {}]
Sent(c) == [kind |-> "sent", cursor |-> c, page |-> {}]
Answer(p) == [kind |-> "answer", cursor |-> 0, page |-> p]

FeedInit ==
    /\ posted \in SUBSET BlogId /\ deleted = {} /\ steady = posted
    /\ lastId = 0 /\ shown = [b \in BlogId |-> 0]
    /\ request = [q \in FeedRequest |-> Idle] /\ doubled = FALSE

SaveBlog(b) ==
    /\ b \notin posted \cup deleted /\ posted' = posted \cup {b}
    /\ UNCHANGED <<deleted, lastId, shown, request, steady, doubled>>

RemoveBlog(b) ==
    /\ b \in posted /\ posted' = posted \ {b} /\ deleted' = deleted \cup {b}
    /\ steady' = steady \ {b}
    /\ UNCHANGED <<lastId, shown, request, doubled>>

\* The end of the list is reached once more: a request that takes longer than the
\* 500 ms of followReachBottom does not keep the page from sending the next one.
QueryFollowBlogs(q) ==
    /\ request[q] = Idle
    /\ request' = [request EXCEPT ![q] = Sent(lastId)]
    /\ doubled' = (doubled \/ \E o \in FeedRequest : request[o] # Idle)
    /\ UNCHANGED <<posted, deleted, lastId, shown, steady>>

\* Changed form: <= for <.
NotAbove(c) == {b \in posted : c = 0 \/ b <= c}

Below(c) == {b \in posted : c = 0 \/ b < c}

\* Changed form: ascending ids.
FirstOf(S) == {b \in S : Cardinality({a \in S : a < b}) < PageSize}

\* ORDER BY id DESC LIMIT MAX_PAGE_SIZE.
PageOf(S) == {b \in S : Cardinality({a \in S : a > b}) < PageSize}

QueryBlogOfFollow(q) ==
    /\ request[q].kind = "sent"
    /\ request' = [request EXCEPT ![q] = Answer(PageOf(Below(@.cursor)))]
    /\ UNCHANGED <<posted, deleted, lastId, shown, steady, doubled>>

\* The answer is appended; minTime is the id of its last blog.
ShowPage(q) ==
    /\ request[q].kind = "answer"
    /\ LET page == request[q].page
       IN  /\ shown' = [b \in BlogId |-> IF b \in page /\ shown[b] < 2 THEN shown[b] + 1
                                         ELSE shown[b]]
           /\ \/ page = {} /\ UNCHANGED lastId
              \/ \E b \in page : (\A a \in page : b <= a) /\ lastId' = b
    /\ request' = [request EXCEPT ![q] = Idle]
    /\ UNCHANGED <<posted, deleted, steady, doubled>>

\* The five seconds of the page are over, or the server fails: nothing happens.
RequestLost(q) ==
    /\ request[q] # Idle /\ request' = [request EXCEPT ![q] = Idle]
    /\ UNCHANGED <<posted, deleted, lastId, shown, steady, doubled>>

FeedNext ==
    \/ \E b \in BlogId : SaveBlog(b) \/ RemoveBlog(b)
    \/ \E q \in FeedRequest :
          QueryFollowBlogs(q) \/ QueryBlogOfFollow(q) \/ ShowPage(q) \/ RequestLost(q)

FeedSpec == FeedInit /\ [][FeedNext]_feedVars

-----------------------------------------------------------------------------
FeedTypeOK ==
    /\ posted \subseteq BlogId /\ deleted \subseteq BlogId /\ steady \subseteq posted
    /\ lastId \in 0..MaxBlog /\ shown \in [BlogId -> 0..2]
    /\ request \in [FeedRequest -> [kind : {"idle", "sent", "answer"},
                                    cursor : 0..MaxBlog, page : SUBSET BlogId]]
    /\ doubled \in BOOLEAN

\* However many blogs are saved and deleted meanwhile, no blog is on the page twice
\* unless the page had two requests on their way.
ShownOnce == ~doubled => \A b \in BlogId : shown[b] <= 1

\* No blog that was there all the time is skipped, even when the answers of two
\* requests come back in the wrong order or not at all: what the page has scrolled
\* past is on it.
NothingSkipped == lastId > 0 => \A b \in steady : b >= lastId => shown[b] > 0
=============================================================================
