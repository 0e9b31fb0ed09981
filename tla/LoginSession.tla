---------------------------- MODULE LoginSession ----------------------------
(***************************************************************************)
(* Login, requests and logout over the token maps in Redis (UserService-   *)
(* Impl.login, UserController.logout), and the two interceptors that carry *)
(* the user of a request through the thread that works on it (UserHolder). *)
(* The page sends the token it keeps with every request (common.js).       *)
(***************************************************************************)
CONSTANTS
    Token,   \* tokens, each of one login of one user; their hash is the user here
    Worker,  \* threads of the servers
    Nobody   \* no token, no user

ASSUME NobodyApart == Nobody \notin Token

VARIABLES
    map,      \* login:token:{t}: unused, without a TTL yet, with one, gone
    phase,    \* threads: where their request is
    token,    \* the token of the request, or the one login has made
    holder,   \* UserHolder, the ThreadLocal of the thread
    leftover  \* history: what kept afterCompletion from clearing it, "none" if it ran

loginVars == <<map, phase, token, holder, leftover>>

LoginInit ==
    /\ map = [t \in Token |-> "unused"]
    /\ phase = [w \in Worker |-> "idle"]
    /\ token = [w \in Worker |-> Nobody] /\ holder = [w \in Worker |-> Nobody]
    /\ leftover = [w \in Worker |-> "none"]

Enter(w, from, to) == phase[w] = from /\ phase' = [phase EXCEPT ![w] = to]

Stored(t) == map[t] \in {"bare", "live"}

\* The page attaches the token of a login that was answered, as long as it has it.
SendRequest(w, t) ==
    /\ t # Nobody => map[t] \in {"live", "gone"}
    /\ Enter(w, "idle", "entries")
    /\ token' = [token EXCEPT ![w] = t]
    /\ UNCHANGED <<map, holder, leftover>>

\* RefreshTokenInterceptor.preHandle: a token that is in Redis sets the holder;
\* otherwise the thread goes on with what it holds.
ReadEntries(w) ==
    /\ IF token[w] # Nobody /\ Stored(token[w])
       THEN /\ Enter(w, "entries", "expire")
            /\ holder' = [holder EXCEPT ![w] = token[w]]
            /\ leftover' = [leftover EXCEPT ![w] = "none"]
       ELSE Enter(w, "entries", "handler") /\ UNCHANGED <<holder, leftover>>
    /\ UNCHANGED <<map, token>>

\* Changed form: the map is written again.
Restored(t) == "live"

\* EXPIRE does nothing to a key that is gone.
Refreshed(t) == IF Stored(t) THEN "live" ELSE map[t]

RefreshToken(w) ==
    /\ Enter(w, "expire", "handler")
    /\ map' = [map EXCEPT ![token[w]] = Refreshed(token[w])]
    /\ UNCHANGED <<token, holder, leftover>>

\* EXPIRE throws: preHandle has not returned, so afterCompletion is not called.
RefreshThrows(w) ==
    /\ Enter(w, "expire", "idle")
    /\ leftover' = [leftover EXCEPT ![w] = "thrown"]
    /\ UNCHANGED <<map, token, holder>>

\* Changed form: nothing clears it.
NotCleared(w) == holder

Cleared(w) == [holder EXCEPT ![w] = Nobody]

\* The handler, or the 401 of LoginInterceptor, and afterCompletion.
Complete(w) ==
    /\ Enter(w, "handler", "idle")
    /\ holder' = Cleared(w)
    /\ leftover' = [leftover EXCEPT ![w] = "none"]
    /\ UNCHANGED <<map, token>>

\* chat returns a Flux: the request goes on without its thread, which returns to the
\* pool, and afterCompletion waits for the dispatch at the end of the stream.  That
\* passes both interceptors again with the same token, on whatever thread is free:
\* here it is a SendRequest like any other.
ChatStreams(w) ==
    /\ Enter(w, "handler", "idle")
    /\ holder[w] # Nobody
    /\ leftover' = [leftover EXCEPT ![w] = IF @ = "none" THEN "stream" ELSE @]
    /\ UNCHANGED <<map, token, holder>>

\* logout, for a request that passed LoginInterceptor, and afterCompletion.
Logout(w) ==
    /\ Enter(w, "handler", "idle")
    /\ holder[w] # Nobody /\ token[w] # Nobody
    /\ map' = [map EXCEPT ![token[w]] = "gone"]
    /\ holder' = Cleared(w)
    /\ leftover' = [leftover EXCEPT ![w] = "none"]
    /\ UNCHANGED token

\* login has found the user: a new token, its map, then its expiry.
PutAll(w, t) ==
    /\ map[t] = "unused"
    /\ Enter(w, "handler", "ttl")
    /\ token' = [token EXCEPT ![w] = t]
    /\ map' = [map EXCEPT ![t] = "bare"]
    /\ UNCHANGED <<holder, leftover>>

\* When EXPIRE throws nobody is told the token, and its map has no end.
SetTtl(w) ==
    /\ Enter(w, "ttl", "idle")
    /\ map' \in {map, [map EXCEPT ![token[w]] = Refreshed(token[w])]}
    /\ holder' = Cleared(w)
    /\ leftover' = [leftover EXCEPT ![w] = "none"]
    /\ UNCHANGED token

TokenEnds(t) ==
    /\ map[t] = "live" /\ map' = [map EXCEPT ![t] = "gone"]
    /\ UNCHANGED <<phase, token, holder, leftover>>

LoginNext ==
    \/ \E w \in Worker :
          \/ \E t \in Token \cup {Nobody} : SendRequest(w, t)
          \/ \E t \in Token : PutAll(w, t)
          \/ ReadEntries(w) \/ RefreshToken(w) \/ RefreshThrows(w) \/ Complete(w)
          \/ ChatStreams(w) \/ Logout(w) \/ SetTtl(w)
    \/ \E t \in Token : TokenEnds(t)

LoginSpec == LoginInit /\ [][LoginNext]_loginVars

-----------------------------------------------------------------------------
LoginTypeOK ==
    /\ map \in [Token -> {"unused", "bare", "live", "gone"}]
    /\ phase \in [Worker -> {"idle", "entries", "expire", "handler", "ttl"}]
    /\ token \in [Worker -> Token \cup {Nobody}]
    /\ holder \in [Worker -> Token \cup {Nobody}]
    /\ leftover \in [Worker -> {"none", "thrown", "stream"}]

\* Threads serve many users one after the other.  A request whose token is in Redis
\* runs as its own user, whatever the thread still holds; any other request runs as
\* nobody, unless an earlier one left the thread without afterCompletion.
HandlerSeesUser ==
    \A w \in Worker : phase[w] = "handler" =>
        /\ token[w] # Nobody /\ Stored(token[w]) => holder[w] = token[w]
        /\ leftover[w] = "none" => holder[w] \in {Nobody, token[w]}

\* A token that was logged out or ran out never serves again, although requests that
\* read it before the logout go on and refresh it afterwards.
LoggedOutStaysOut ==
    [][\A t \in Token : map[t] = "gone" => map'[t] = "gone"]_loginVars

\* What the code claims and does not do.

\* "No user in the ThreadLocal: intercept" (LoginInterceptor): as long as nothing
\* throws, a handler runs as the user of its own token or as nobody.
OwnUser ==
    \A w \in Worker :
        phase[w] = "handler" /\ leftover[w] # "thrown" => holder[w] \in {Nobody, token[w]}
=============================================================================
