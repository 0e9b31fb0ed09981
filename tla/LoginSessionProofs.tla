------------------------- MODULE LoginSessionProofs -------------------------
(***************************************************************************)
(* Proofs about LoginSession for every set of tokens and of threads.       *)
(***************************************************************************)
EXTENDS LoginSession, TLAPS

\* Only the token of a request is refreshed, only a new one gets its expiry.
AtToken == \A w \in Worker : phase[w] \in {"expire", "ttl"} => token[w] \in Token

\* A request brings a token that a login was answered with.
Brought ==
    \A w \in Worker :
        phase[w] \in {"entries", "expire", "handler"} /\ token[w] # Nobody
            => map[token[w]] \in {"live", "gone"}

\* Past the entries of its token a thread holds the user of that token, and keeps it
\* while the token lives.
Seen ==
    \A w \in Worker :
        /\ phase[w] = "expire" => holder[w] = token[w]
        /\ phase[w] = "handler" /\ token[w] # Nobody /\ map[token[w]] = "live"
               => holder[w] = token[w]

\* A thread that afterCompletion has cleared carries nobody to its next request.
Carried ==
    \A w \in Worker : leftover[w] = "none" =>
        /\ phase[w] \in {"idle", "entries"} => holder[w] = Nobody
        /\ phase[w] = "handler" => holder[w] \in {Nobody, token[w]}

LoginInv == LoginTypeOK /\ AtToken /\ Brought /\ Seen /\ Carried

\* Idle threads hold nobody.
LEMMA LoginInitInv == LoginInit => LoginInv
BY DEF LoginInit, LoginInv, LoginTypeOK, AtToken, Brought, Seen, Carried

-----------------------------------------------------------------------------
(* The token maps *)

MapState == {"unused", "bare", "live", "gone"}

\* What EXPIRE does to a token map: one that is gone stays gone, one that has an end
\* keeps one, and none has an end afterwards that had no map.
LEMMA RefreshedMap ==
    ASSUME LoginTypeOK, NEW u \in Token, map' = [map EXCEPT ![u] = Refreshed(u)]
    PROVE  /\ map' \in [Token -> MapState]
           /\ \A t \in Token : map[t] = "gone" => map'[t] = "gone"
           /\ \A t \in Token : map[t] = "live" => map'[t] = "live"
BY DEF LoginTypeOK, Refreshed, Stored, MapState

\* In every step a token that is gone stays gone, and one that lives lives on or goes.
LEMMA MapStep ==
    ASSUME LoginTypeOK, AtToken, [LoginNext]_loginVars
    PROVE  /\ map' \in [Token -> MapState]
           /\ \A t \in Token : map[t] = "gone" => map'[t] = "gone"
           /\ \A t \in Token : map[t] = "live" => map'[t] \in {"live", "gone"}
<1> DEFINE Kept == /\ map' \in [Token -> MapState]
                   /\ \A t \in Token : map[t] = "gone" => map'[t] = "gone"
                   /\ \A t \in Token : map[t] = "live" => map'[t] \in {"live", "gone"}
<1> SUFFICES Kept
  OBVIOUS
<1> USE DEF LoginTypeOK, AtToken, Enter, MapState
<1>1. CASE UNCHANGED map
  BY <1>1
<1>2. ASSUME NEW w \in Worker, RefreshToken(w) \/ SetTtl(w) PROVE Kept
  <2>1. token[w] \in Token
    BY <1>2 DEF RefreshToken, SetTtl
  <2>2. UNCHANGED map \/ map' = [map EXCEPT ![token[w]] = Refreshed(token[w])]
    BY <1>2 DEF RefreshToken, SetTtl
  <2> QED BY <1>1, <2>1, <2>2, RefreshedMap
<1>3. ASSUME NEW w \in Worker, Logout(w) PROVE Kept
  BY <1>3 DEF Logout
<1>4. ASSUME NEW w \in Worker, NEW u \in Token, PutAll(w, u) PROVE Kept
  BY <1>4 DEF PutAll
<1>5. ASSUME NEW u \in Token, TokenEnds(u) PROVE Kept
  BY <1>5 DEF TokenEnds
<1> QED BY <1>1, <1>2, <1>3, <1>4, <1>5
        DEF LoginNext, SendRequest, ReadEntries, RefreshThrows, Complete, ChatStreams,
            loginVars

-----------------------------------------------------------------------------
(* The threads *)

\* A step that leaves the threads alone keeps what is known of them: it cannot make a
\* token live that a request has brought.
LEMMA ThreadsAlone ==
    ASSUME LoginInv, [LoginNext]_loginVars, NEW w \in Worker,
           phase'[w] = phase[w], token'[w] = token[w], holder'[w] = holder[w],
           leftover'[w] = leftover[w]
    PROVE  /\ phase'[w] \in {"entries", "expire", "handler"} /\ token'[w] # Nobody
                  => map'[token'[w]] \in {"live", "gone"}
           /\ phase'[w] = "handler" /\ token'[w] # Nobody /\ map'[token'[w]] = "live"
                  => holder'[w] = token'[w]
<1>1. token[w] # Nobody => token[w] \in Token
  BY DEF LoginInv, LoginTypeOK
<1>2. /\ \A t \in Token : map[t] = "gone" => map'[t] = "gone"
      /\ \A t \in Token : map[t] = "live" => map'[t] \in {"live", "gone"}
  BY MapStep DEF LoginInv
<1> QED BY <1>1, <1>2 DEF LoginInv, Brought, Seen

\* A thread goes on alone, and its own step leaves it with what is known of it.
LEMMA OneThread ==
    ASSUME LoginInv, [LoginNext]_loginVars, LoginTypeOK', NEW w \in Worker,
           \A o \in Worker \ {w} :
               /\ phase'[o] = phase[o] /\ token'[o] = token[o]
               /\ holder'[o] = holder[o] /\ leftover'[o] = leftover[o],
           phase'[w] \in {"expire", "ttl"} => token'[w] \in Token,
           phase'[w] \in {"entries", "expire", "handler"} /\ token'[w] # Nobody
               => map'[token'[w]] \in {"live", "gone"},
           phase'[w] = "expire" => holder'[w] = token'[w],
           phase'[w] = "handler" /\ token'[w] # Nobody /\ map'[token'[w]] = "live"
               => holder'[w] = token'[w],
           leftover'[w] = "none" =>
               /\ phase'[w] \in {"idle", "entries"} => holder'[w] = Nobody
               /\ phase'[w] = "handler" => holder'[w] \in {Nobody, token'[w]}
    PROVE  LoginInv'
<1>1. AtToken'
  BY DEF LoginInv, AtToken
<1>2. Brought'
  BY ThreadsAlone DEF Brought
<1>3. Seen'
  BY ThreadsAlone DEF LoginInv, Seen
<1>4. Carried'
  BY DEF LoginInv, Carried
<1> QED BY <1>1, <1>2, <1>3, <1>4 DEF LoginInv

\* The steps of a thread.
LEMMA WorkerInv ==
    ASSUME LoginInv, [LoginNext]_loginVars, NEW w \in Worker,
           \/ \E t \in Token \cup {Nobody} : SendRequest(w, t)
           \/ \E t \in Token : PutAll(w, t)
           \/ ReadEntries(w) \/ RefreshToken(w) \/ RefreshThrows(w) \/ Complete(w)
           \/ ChatStreams(w) \/ Logout(w) \/ SetTtl(w)
    PROVE  LoginInv'
<1> USE DEF LoginTypeOK, Enter, MapState
<1>0. /\ LoginTypeOK /\ AtToken /\ Brought /\ Seen /\ Carried
      /\ map' \in [Token -> MapState]
      /\ \A t \in Token : map[t] = "gone" => map'[t] = "gone"
      /\ \A t \in Token : map[t] = "live" => map'[t] \in {"live", "gone"}
  BY MapStep DEF LoginInv
<1>1. ASSUME NEW t \in Token \cup {Nobody}, SendRequest(w, t) PROVE LoginInv'
  BY <1>0, <1>1, OneThread DEF SendRequest, Carried
<1>2. ASSUME NEW t \in Token, PutAll(w, t) PROVE LoginInv'
  BY <1>0, <1>2, OneThread DEF PutAll
<1>3. CASE ReadEntries(w)
  <2>1. CASE token[w] # Nobody /\ Stored(token[w])
    <3>1. /\ phase[w] = "entries" /\ phase' = [phase EXCEPT ![w] = "expire"]
          /\ token[w] \in Token
          /\ holder' = [holder EXCEPT ![w] = token[w]]
          /\ leftover' = [leftover EXCEPT ![w] = "none"] /\ UNCHANGED <<map, token>>
      BY <1>0, <1>3, <2>1 DEF ReadEntries
    <3> QED BY <1>0, <3>1, OneThread DEF Brought
  <2>2. CASE ~(token[w] # Nobody /\ Stored(token[w]))
    <3>1. /\ phase[w] = "entries" /\ phase' = [phase EXCEPT ![w] = "handler"]
          /\ UNCHANGED <<map, token, holder, leftover>>
      BY <1>3, <2>2 DEF ReadEntries
    <3> QED BY <1>0, <2>2, <3>1, OneThread DEF Brought, Carried, Stored
  <2> QED BY <2>1, <2>2
<1>4. CASE RefreshToken(w)
  BY <1>0, <1>4, OneThread DEF RefreshToken, AtToken, Brought, Seen
<1>5. CASE RefreshThrows(w)
  BY <1>0, <1>5, OneThread DEF RefreshThrows
<1>6. CASE Complete(w)
  BY <1>0, <1>6, OneThread DEF Complete, Cleared
<1>7. CASE ChatStreams(w)
  BY <1>0, <1>7, OneThread DEF ChatStreams
<1>8. CASE Logout(w)
  BY <1>0, <1>8, OneThread DEF Logout, Cleared
<1>9. CASE SetTtl(w)
  BY <1>0, <1>9, OneThread DEF SetTtl, Cleared
<1> QED BY <1>1, <1>2, <1>3, <1>4, <1>5, <1>6, <1>7, <1>8, <1>9

\* Every step keeps the invariant.
LEMMA LoginStep == LoginInv /\ [LoginNext]_loginVars => LoginInv'
<1> SUFFICES ASSUME LoginInv, [LoginNext]_loginVars PROVE LoginInv'
  OBVIOUS
<1>1. CASE UNCHANGED loginVars
  BY <1>1 DEF loginVars, LoginInv, LoginTypeOK, AtToken, Brought, Seen, Carried
<1>2. ASSUME NEW t \in Token, TokenEnds(t) PROVE LoginInv'
  <2>1. UNCHANGED <<phase, token, holder, leftover>>
    BY <1>2 DEF TokenEnds
  <2>2. LoginTypeOK'
    BY <2>1, MapStep DEF LoginInv, LoginTypeOK, MapState
  <2>3. Brought' /\ Seen'
    BY <2>1, ThreadsAlone DEF LoginInv, Brought, Seen
  <2>4. AtToken' /\ Carried'
    BY <2>1 DEF LoginInv, AtToken, Carried
  <2> QED BY <2>2, <2>3, <2>4 DEF LoginInv
<1> QED BY <1>1, <1>2, WorkerInv DEF LoginNext

\* The invariant holds in every behaviour.
LEMMA LoginAlways == LoginSpec => []LoginInv
BY LoginInitInv, LoginStep, PTL DEF LoginSpec

\* For any number of threads and tokens, a request whose token lives runs as its own
\* user, whatever exceptions and streams have left in UserHolder; and as nobody else
\* on a thread that afterCompletion has cleared.
THEOREM HandlersSeeTheirUser == LoginSpec => []HandlerSeesUser
<1>1. LoginInv => HandlerSeesUser
  <2> SUFFICES ASSUME LoginInv, NEW w \in Worker, phase[w] = "handler"
               PROVE  /\ token[w] # Nobody /\ Stored(token[w]) => holder[w] = token[w]
                      /\ leftover[w] = "none" => holder[w] \in {Nobody, token[w]}
    BY DEF HandlerSeesUser
  <2>1. token[w] # Nobody /\ Stored(token[w]) => map[token[w]] = "live"
    BY DEF LoginInv, Brought, Stored
  <2> QED BY <2>1 DEF LoginInv, Seen, Carried
<1> QED BY <1>1, LoginAlways, PTL

\* For any number of threads and tokens, no refresh of RefreshTokenInterceptor brings
\* back a token that was logged out, in whatever order the two reach Redis.
THEOREM LogoutIsFinal == LoginSpec => LoggedOutStaysOut
<1>1. LoginInv /\ [LoginNext]_loginVars
        => [\A t \in Token : map[t] = "gone" => map'[t] = "gone"]_loginVars
  BY MapStep DEF LoginInv
<1> QED BY <1>1, LoginAlways, PTL DEF LoginSpec, LoggedOutStaysOut
=============================================================================
