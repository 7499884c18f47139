------------------------------ MODULE LinearClient ------------------------------
(***************************************************************************)
(* oauth.py and api.py: how the clients of one profile share its Linear    *)
(* app.  They share the refresh token that Linear rotates on every use,    *)
(* kept in 1Password Connect and, until Connect has accepted a rotated     *)
(* one, in the profile's cache; and the cooldown that Linear last asked    *)
(* for, kept in a file.                                                    *)
(*                                                                         *)
(* A credential is obtained under the cache's file lock, across every call *)
(* to Connect and Linear.  A rejected credential (401) is marked expired   *)
(* in the cache without that lock.  Tokens are numbered as Linear issues   *)
(* them; time is a small counter.  The wait before another refresh is      *)
(* tried (60 seconds to 15 minutes) is left out: it may come at any time.  *)
(***************************************************************************)
EXTENDS Naturals

CONSTANTS
    Deployments,    \* what may happen: the clients and how often each trouble
    AllClients,     \* the clients of any deployment
    MaxTokens,      \* bound: tokens that Linear issues
    MaxTime         \* bound of the clock

ASSUME ClientAssumption ==
    /\ Deployments \subseteq [clients : SUBSET AllClients, rejections : Nat, outages : Nat, deaths : Nat]
    /\ "free" \notin AllClients /\ MaxTokens \in Nat \ {0} /\ MaxTime \in Nat

VARIABLES
    linear,     \* the refresh token that Linear accepts, the last one that never reached
                \* the cache, and the one accepted when an older cache was last written back
    connect,    \* the refresh token in Connect
    tokenCache, \* the cache file
    fileLock,   \* holder of the cache's lock, or none
    client,     \* [AllClients -> the request in progress]
    pause,      \* the cooldown file, and the longest cooldown Linear ever asked for
    clock,
    troubles    \* the deployment: its clients, and how often each trouble may still happen

clientVars == <<linear, connect, tokenCache, fileLock, client, pause, clock, troubles>>

Unheld == "free"
Max2(a, b) == IF a > b THEN a ELSE b
NoTokens == [access |-> 0, expired |-> TRUE, rotated |-> 0]
AtRest == [pc |-> "idle", cache |-> NoTokens, issued |-> 0, attempt |-> 1, later |-> FALSE, until |-> 0]

ClientIdle(deployment) ==
    /\ linear = [refresh |-> 1, lost |-> 0, torn |-> 0] /\ connect = 1
    /\ tokenCache = NoTokens
    /\ fileLock = Unheld
    /\ client = [c \in AllClients |-> AtRest]
    /\ pause = [file |-> 0, longest |-> 0] /\ clock = 0
    /\ troubles = deployment
ClientInit == \E deployment \in Deployments : ClientIdle(deployment)

To(c, pc) == client' = [client EXCEPT ![c].pc = pc]
Trouble(kind) == troubles[kind] > 0 /\ troubles' = [troubles EXCEPT ![kind] = @ - 1]

(* An error or an answer ends the request, which forgets what it read.     *)
CallOver(c) == [client[c] EXCEPT !.pc = "idle", !.cache = NoTokens, !.attempt = 1, !.issued = 0]
Rests(c) == client' = [client EXCEPT ![c] = CallOver(c)]
Unlocked(c) == fileLock' = IF fileLock = c THEN Unheld ELSE fileLock

-----------------------------------------------------------------------------
(* The request: the longest cooldown that any client was told holds it     *)
(* back, and is written back so that it outlives this client.              *)

Longest(c, until) == Max2(Max2(client[c].until, until), pause.file)
Pauses(c, until) == pause' = [file |-> Longest(c, until), longest |-> Max2(pause.longest, until)]

Requests(c) ==
    /\ client[c].pc = "idle" /\ c \in troubles.clients
    /\ Pauses(c, 0)
    /\ client' = [client EXCEPT ![c].until = Longest(c, 0),
                                ![c].pc = IF clock < Longest(c, 0) THEN "idle" ELSE "call"]
    /\ UNCHANGED <<linear, connect, tokenCache, fileLock, clock, troubles>>

(* Before it is sent only what this client knows holds it back.            *)
HeldBack(c) ==
    /\ client[c].pc = "call" /\ clock < client[c].until
    /\ Rests(c)
    /\ UNCHANGED <<linear, connect, tokenCache, fileLock, pause, clock, troubles>>

Locks(c) ==
    /\ client[c].pc = "call" /\ clock >= client[c].until /\ fileLock = Unheld
    /\ fileLock' = c
    /\ client' = [client EXCEPT ![c].pc = "store", ![c].cache = tokenCache]
    /\ UNCHANGED <<linear, connect, tokenCache, pause, clock, troubles>>

(* _store_rotated: a pending rotated token goes to Connect; an outage puts *)
(* it off and leaves it in the cache.                                      *)
StoreDue(c) == client[c].cache.rotated # 0 /\ ~client[c].later

StoreSkips(c) ==
    /\ client[c].pc = "store" /\ ~StoreDue(c)
    /\ To(c, "credential")
    /\ UNCHANGED <<linear, connect, tokenCache, fileLock, pause, clock, troubles>>
StoreWrites(c) ==
    /\ client[c].pc = "store" /\ StoreDue(c)
    /\ connect' = client[c].cache.rotated
    /\ To(c, "stored")
    /\ UNCHANGED <<linear, tokenCache, fileLock, pause, clock, troubles>>
(* Connect shows the token: the cache need not keep it any longer.         *)
Stored(c) ==
    /\ client[c].pc = "stored"
    /\ tokenCache' = [client[c].cache EXCEPT !.rotated = 0]
    /\ client' = [client EXCEPT ![c].pc = "credential", ![c].cache.rotated = 0]
    /\ UNCHANGED <<linear, connect, fileLock, pause, clock, troubles>>
PutsOffDropping(c) ==
    /\ client' = [client EXCEPT ![c].pc = "credential", ![c].later = TRUE, ![c].cache.rotated = 0]
    /\ tokenCache' = [client[c].cache EXCEPT !.rotated = 0]
PutsOff(c) ==
    /\ client' = [client EXCEPT ![c].pc = "credential", ![c].later = TRUE]
    /\ UNCHANGED tokenCache
StoreFails(c) ==
    /\ client[c].pc \in {"store", "stored"} /\ StoreDue(c)
    /\ Trouble("outages")
    /\ PutsOff(c)
    /\ UNCHANGED <<linear, connect, fileLock, pause, clock>>
(* The next try comes five minutes later.                                  *)
StoreAgain(c) ==
    /\ client[c].later
    /\ client' = [client EXCEPT ![c].later = FALSE]
    /\ UNCHANGED <<linear, connect, tokenCache, fileLock, pause, clock, troubles>>

Fresh(tokens) == tokens.access # 0 /\ ~tokens.expired
Refresh(c) == IF client[c].cache.rotated # 0 THEN client[c].cache.rotated ELSE connect

UsesCached(c) ==
    /\ client[c].pc = "credential" /\ Fresh(client[c].cache)
    /\ fileLock' = Unheld
    /\ client' = [client EXCEPT ![c].pc = "send", ![c].cache = NoTokens]
    /\ UNCHANGED <<linear, connect, tokenCache, pause, clock, troubles>>
(* Linear accepts only its current refresh token, and rotates it.          *)
Refreshes(c) ==
    /\ client[c].pc = "credential" /\ ~Fresh(client[c].cache)
    /\ Refresh(c) = linear.refresh /\ linear.refresh < MaxTokens
    /\ linear' = [linear EXCEPT !.refresh = @ + 1]
    /\ client' = [client EXCEPT ![c].pc = "keep", ![c].issued = linear.refresh + 1]
    /\ UNCHANGED <<connect, tokenCache, fileLock, pause, clock, troubles>>
(* Linear rotated it, and the answer is lost: no answer in time, an error  *)
(* of the server, an answer without tokens.                                *)
RefreshUnheard(c) ==
    /\ client[c].pc = "credential" /\ ~Fresh(client[c].cache)
    /\ Refresh(c) = linear.refresh /\ linear.refresh < MaxTokens
    /\ linear' = [linear EXCEPT !.refresh = @ + 1, !.lost = linear.refresh + 1]
    /\ Rests(c) /\ Unlocked(c)
    /\ UNCHANGED <<connect, tokenCache, pause, clock, troubles>>
(* Nothing was rotated: Connect does not give the credentials, Linear does *)
(* not accept this token or was not reached.                               *)
RefreshFails(c) ==
    /\ client[c].pc = "credential" /\ ~Fresh(client[c].cache)
    /\ Rests(c) /\ Unlocked(c)
    /\ UNCHANGED <<linear, connect, tokenCache, pause, clock, troubles>>

(* The rotated token is in the cache before anything else happens to it.   *)
KeepsTokens(c) ==
    /\ client[c].pc = "keep"
    /\ LET tokens == [access |-> client[c].issued, expired |-> FALSE, rotated |-> client[c].issued]
       IN  /\ tokenCache' = tokens
           /\ client' = [client EXCEPT ![c].pc = "store", ![c].cache = tokens,
                                       ![c].issued = 0, ![c].later = FALSE]
    /\ UNCHANGED <<linear, connect, fileLock, pause, clock, troubles>>

-----------------------------------------------------------------------------
(* The answer may tell of a cooldown, of a limit reached or of a budget    *)
(* that is used up; one without budget leaves the file alone.              *)

Hears(c, next) ==
    \/ client' = [client EXCEPT ![c] = next] /\ UNCHANGED pause
    \/ \E until \in {0} \cup (clock + 1)..MaxTime :
          /\ Pauses(c, until)
          /\ client' = [client EXCEPT ![c] = [next EXCEPT !.until = Longest(c, until)]]

(* The request is answered, limited, or gets no answer.                    *)
Answered(c) ==
    /\ client[c].pc = "send"
    /\ Hears(c, CallOver(c))
    /\ UNCHANGED <<linear, connect, tokenCache, fileLock, clock, troubles>>

(* 401: the cached credential is marked expired, by a read and a write     *)
(* outside the file lock, and the request is sent once more.               *)
Rejected(c) ==
    /\ client[c].pc = "send" /\ Trouble("rejections")
    /\ Hears(c, IF client[c].attempt = 2 THEN CallOver(c)
                ELSE [client[c] EXCEPT !.pc = "invalidate", !.cache = tokenCache, !.attempt = 2])
    /\ UNCHANGED <<linear, connect, tokenCache, fileLock, clock>>
(* What another client did to the cache since that read is undone.         *)
Invalidates(c) ==
    /\ client[c].pc = "invalidate"
    /\ tokenCache' = [client[c].cache EXCEPT !.expired = TRUE]
    /\ linear' = IF client[c].cache.rotated = tokenCache.rotated THEN linear
                 ELSE [linear EXCEPT !.torn = linear.refresh]
    /\ client' = [client EXCEPT ![c].pc = "call", ![c].cache = NoTokens]
    /\ UNCHANGED <<connect, fileLock, pause, clock, troubles>>

(* The cache cannot be written; what Linear had just issued is lost.       *)
WriteFails(c) ==
    /\ client[c].pc \in {"keep", "stored", "invalidate"}
    /\ linear' = [linear EXCEPT !.lost = Max2(@, client[c].issued)]
    /\ Rests(c) /\ Unlocked(c)
    /\ UNCHANGED <<connect, tokenCache, pause, clock, troubles>>

-----------------------------------------------------------------------------
AccessExpires ==
    /\ Fresh(tokenCache) /\ tokenCache' = [tokenCache EXCEPT !.expired = TRUE]
    /\ UNCHANGED <<linear, connect, fileLock, client, pause, clock, troubles>>
TimePasses ==
    /\ clock < MaxTime /\ clock' = clock + 1
    /\ UNCHANGED <<linear, connect, tokenCache, fileLock, client, pause, troubles>>

(* A client dies and starts again; what Linear had just issued to it is    *)
(* lost unless it was kept.                                                *)
Dies(c) ==
    /\ client[c].pc # "idle" /\ Trouble("deaths")
    /\ linear' = [linear EXCEPT !.lost = Max2(@, client[c].issued)]
    /\ Unlocked(c)
    /\ client' = [client EXCEPT ![c] = AtRest]
    /\ UNCHANGED <<connect, tokenCache, pause, clock>>

ClientNext ==
    \/ AccessExpires \/ TimePasses
    \/ \E c \in AllClients :
        \/ Requests(c) \/ Locks(c) \/ StoreSkips(c) \/ StoreWrites(c) \/ Stored(c) \/ StoreFails(c)
        \/ StoreAgain(c) \/ UsesCached(c) \/ Refreshes(c) \/ RefreshUnheard(c) \/ RefreshFails(c)
        \/ KeepsTokens(c) \/ HeldBack(c) \/ Answered(c) \/ Rejected(c) \/ Invalidates(c)
        \/ WriteFails(c) \/ Dies(c)

ClientSpec == ClientInit /\ [][ClientNext]_clientVars
-----------------------------------------------------------------------------
ClientTypeOK ==
    /\ linear.refresh \in 1..MaxTokens /\ connect \in 1..MaxTokens /\ tokenCache.rotated \in 0..MaxTokens
    /\ fileLock \in AllClients \cup {Unheld} /\ clock \in 0..MaxTime
    /\ \A c \in AllClients : client[c].pc \in
          {"idle", "call", "store", "stored", "credential", "keep", "send", "invalidate"}

ToBeKept(c) == \/ client[c].pc = "keep" /\ client[c].issued = linear.refresh
               \/ client[c].pc = "store" /\ StoreDue(c) /\ client[c].cache.rotated = linear.refresh

(* What oauth.py:3 says: Connect is the source of truth and the cache holds *)
(* a rotated token that Connect has not accepted yet - or a client is      *)
(* about to put it there -, unless it never reached the cache (an answer   *)
(* lost; a client that died or could not write before it kept the token).  *)
TokenHeld ==
    \/ linear.refresh \in {connect, tokenCache.rotated, linear.lost}
    \/ \E c \in AllClients : ToBeKept(c)

(* A token that reached the cache is not dropped, nor replaced in Connect  *)
(* by an older one (oauth.py:3): through outages, failed writes, deaths,   *)
(* lost answers and concurrent clients, also rejected ones.  The one       *)
(* exception, until the next rotation: a rejected client undid another's   *)
(* change of the pending token (oauth.py:160), see TokenHeld.              *)
TokenKept == TokenHeld \/ linear.torn = linear.refresh

(* The longest cooldown is retained across clients and restarts            *)
(* (api.py:445): no client shortens what another was told.                 *)
PauseKept == pause.file = pause.longest

(* What the clients of one home agree on through its files.                 *)
ClientsSound == ClientTypeOK /\ TokenKept /\ PauseKept
=============================================================================
