--------------------------- MODULE PatreonService ---------------------------
(***************************************************************************)
(* cloud/src/patreon: the Worker that links a desktop app to a Patreon     *)
(* membership and issues its leases.  Sessions, links and devices are rows *)
(* of one D1 database; a statement, or a batch, is atomic, and a request   *)
(* is interleaved with the others between any two of them.  Patreon is     *)
(* external: it issues tokens, each of which can be refreshed once, and    *)
(* says which it still accepts.                                            *)
(*                                                                         *)
(* One Patreon account: its link row is unique (UNIQUE patreon_user_hmac). *)
(* An access token and the refresh token that came with it are one number. *)
(* Eligibility does not change the control, so a session that ends in      *)
(* not_entitled is one that ends in linked.  Ages are of the session       *)
(* relative to its expires_at: 0 before it, 1 after it, 2 past             *)
(* EXCHANGE_GRACE_S, 3 past CONSUME_GRACE_S, 4 a day past it.              *)
(* PatreonLink adds the desktop side and the specification of both.        *)
(***************************************************************************)
EXTENDS Naturals, FiniteSets

CONSTANTS
    Apps,           \* installed desktop apps of the account
    MaxSessions,    \* bound: link sessions
    MaxDevices,     \* MAX_DEVICES_PER_LINK
    MaxExpiries,    \* bound: tokens that come near their expiry, leases that expire
    MaxFaults       \* bound: failed and lost calls, requests that die, revocations,
                    \* stored tokens that cannot be decrypted

ASSUME AppsAssumption == IsFiniteSet(Apps)
ASSUME DeviceAssumption == MaxDevices \in Nat \ {0}
ASSUME ServiceBoundAssumption ==
    MaxSessions \in Nat /\ MaxExpiries \in Nat /\ MaxFaults \in Nat

Sessions == 1..MaxSessions
Slots == 1..2       \* a poll the app waits for, and one it has given up

VARIABLES
    session,        \* link_sessions
    link,           \* patreon_links: the row of the account (id 0: no row)
    devices,        \* devices
    callback, poll, refresh,    \* requests being served
    unlinking,      \* the device whose removal an app has asked for (0: none)
    accepted,       \* Patreon: tokens it still accepts
    tokens, links, deviceIds,   \* identifiers given out so far
    expiries, faults,           \* counters for the bounds
    delivered,      \* history: times the credentials of a session were given out
    ended           \* history: tokens that can never be used, and not by a token call of
                    \* the Worker: Patreon ended them, or what replaced them was lost

rows == <<session, link, devices>>
requests == <<callback, poll, refresh, unlinking>>
ids == <<tokens, links, deviceIds>>
history == <<delivered, ended>>
serviceVars == <<rows, requests, accepted, ids, expiries, faults, history>>

NoLink == [id |-> 0, active |-> FALSE, token |-> 0, version |-> 0, lock |-> FALSE,
           expiring |-> FALSE]
NoCallback == [at |-> "none", token |-> 0, link |-> 0]
NoPoll == [at |-> "none", says |-> "none", device |-> 0]
NoRefresh == [at |-> "none", says |-> "none", device |-> 0, link |-> 0, token |-> 0,
              version |-> 0]

ServiceTypeOK ==
    /\ session \in [Sessions -> [status : {"none", "pending", "exchanging", "linked",
                                           "consumed", "over"},
                                 age : 0..4, link : Nat]]
    /\ link \in [id : Nat, active : BOOLEAN, token : Nat, version : Nat, lock : BOOLEAN,
                 expiring : BOOLEAN]
    /\ link.id = 0 => link = NoLink
    /\ link.active => link.token # 0
    /\ devices \subseteq [id : Nat, link : Nat]
    /\ callback \in [Sessions -> [at : {"none", "exchange", "write", "finish"},
                                  token : Nat, link : Nat]]
    /\ poll \in [Sessions -> [Slots ->
           [at : {"none", "read", "batch", "answered"},
            says : {"none", "linked", "pending", "over", "error"},
            device : Nat]]]
    /\ refresh \in [Apps ->
           [at : {"none", "lookup", "lock", "token", "persist", "wipe", "identity",
                  "answered"},
            says : {"none", "lease", "refused", "later"},
            device : Nat, link : Nat, token : Nat, version : Nat]]
    /\ unlinking \in [Apps -> Nat]
    /\ accepted \subseteq Nat
    /\ tokens \in Nat /\ links \in Nat /\ deviceIds \in Nat
    /\ expiries \in Nat /\ faults \in Nat
    /\ delivered \in [Sessions -> Nat] /\ ended \subseteq Nat

Fault == faults < MaxFaults /\ faults' = faults + 1

-----------------------------------------------------------------------------
\* POST link/start, DELETE link/session

Unused == {s \in Sessions : session[s].status = "none"}

\* denied, expired, failed and cancelled sessions, and those the maintenance has deleted: they
\* end the linking, and nothing of them is read again.
Over == [status |-> "over", age |-> 0, link |-> 0]

\* handleLinkStart: the row of a new session.
StartSession(s) ==
    /\ s \in Unused /\ \A t \in Unused : s <= t
    /\ session' = [session EXCEPT ![s].status = "pending"]

\* handleLinkCancel
CancelSession(s) ==
    session' = IF session[s].status = "pending" THEN [session EXCEPT ![s] = Over] ELSE session

-----------------------------------------------------------------------------
\* GET oauth/callback: the browser comes back from Patreon

\* The user declined.
CallbackDenied(s) ==
    /\ session[s].status = "pending" /\ session[s].age = 0
    /\ session' = [session EXCEPT ![s] = Over]
    /\ UNCHANGED <<link, devices, requests, accepted, ids, expiries, faults, history>>

\* The state is consumed: a replayed callback finds the session no longer pending.
CallbackConsumes(s) ==
    /\ session[s].status = "pending" /\ session[s].age = 0
    /\ session' = [session EXCEPT ![s].status = "exchanging"]
    /\ callback' = [callback EXCEPT ![s].at = "exchange"]
    /\ UNCHANGED <<link, devices, poll, refresh, unlinking, accepted, ids, expiries, faults,
                   history>>

\* exchangeCode and fetchIdentity; Patreon may revoke what it issued before.  Then upsertLink
\* looks for the row of the account.
CallbackExchanges(s) ==
    /\ callback[s].at = "exchange"
    /\ tokens' = tokens + 1
    /\ callback' = [callback EXCEPT ![s] = [at |-> "write", token |-> tokens', link |-> link.id]]
    /\ \E kept \in {accepted, {}} :
         /\ accepted' = kept \cup {tokens'}
         /\ ended' = ended \cup (accepted \ kept)
    /\ UNCHANGED <<rows, poll, refresh, unlinking, links, deviceIds, expiries, faults, delivered>>

\* The row with new tokens: the lock is given back, and nothing expires soon.
WithTokens(id, status, token, version) ==
    [id |-> id, active |-> status, token |-> token, version |-> version, lock |-> FALSE,
     expiring |-> FALSE]

\* upsertLink updates the row it found, which may be gone by now.
CallbackUpdates(s) ==
    /\ callback[s].at = "write" /\ callback[s].link # 0
    /\ link' = IF link.id = callback[s].link
               THEN WithTokens(link.id, TRUE, callback[s].token, link.version + 1)
               ELSE link
    /\ callback' = [callback EXCEPT ![s].at = "finish"]
    /\ UNCHANGED <<session, devices, poll, refresh, unlinking, accepted, ids, expiries, faults,
                   history>>

\* upsertLink inserts a row; a row inserted meanwhile sends it back to look for it.
CallbackInserts(s) ==
    /\ callback[s].at = "write" /\ callback[s].link = 0
    /\ IF link.id = 0
       THEN /\ links' = links + 1
            /\ link' = WithTokens(links', TRUE, callback[s].token, 1)
            /\ callback' = [callback EXCEPT ![s].at = "finish", ![s].link = links']
       ELSE /\ callback' = [callback EXCEPT ![s].link = link.id]
            /\ UNCHANGED <<link, links>>
    /\ UNCHANGED <<session, devices, poll, refresh, unlinking, accepted, tokens, deviceIds,
                   expiries, faults, history>>

CallbackFinishes(s) ==
    /\ callback[s].at = "finish"
    /\ session' = IF session[s].status = "exchanging"
                  THEN [session EXCEPT ![s].status = "linked", ![s].link = callback[s].link]
                  ELSE session
    /\ callback' = [callback EXCEPT ![s] = NoCallback]
    /\ UNCHANGED <<link, devices, poll, refresh, unlinking, accepted, ids, expiries, faults,
                   history>>

\* A call to Patreon or to D1 fails ("fail"), or the request dies and nothing is written.
CallbackFails(s) ==
    /\ callback[s].at # "none"
    /\ Fault
    /\ \E dies \in BOOLEAN :
         session' = IF session[s].status = "exchanging" /\ ~dies
                    THEN [session EXCEPT ![s] = Over] ELSE session
    /\ callback' = [callback EXCEPT ![s] = NoCallback]
    /\ UNCHANGED <<link, devices, poll, refresh, unlinking, accepted, ids, expiries, history>>

-----------------------------------------------------------------------------
\* GET link/status

Answered(answer, d) == [at |-> "answered", says |-> answer, device |-> d]

\* What a poll that reads the session row finds; "deliver" if it goes on.
Status(s) ==
    LET st == session[s].status
        age == session[s].age IN
    CASE st = "pending" -> IF age >= 1 THEN "over" ELSE "pending"
      [] st = "exchanging" -> IF age >= 2 THEN "over" ELSE "pending"
      [] st = "linked" -> IF age < 3 /\ link.id = session[s].link THEN "deliver" ELSE "over"
      [] OTHER -> "over"

\* handleLinkStatus up to deliverCredentials; expireSession is persisted on the way.
PollReads(s, k) ==
    /\ poll[s][k].at = "read"
    /\ LET answer == Status(s) IN
         /\ poll' = [poll EXCEPT ![s][k] =
                        IF answer = "deliver" THEN [@ EXCEPT !.at = "batch"]
                        ELSE Answered(answer, 0)]
         /\ session' = IF answer = "over" /\ session[s].status \in {"pending", "exchanging"}
                       THEN [session EXCEPT ![s] = Over] ELSE session
    /\ UNCHANGED <<link, devices, callback, refresh, unlinking, accepted, ids, expiries, faults,
                   history>>

\* The newest MaxDevices devices of each link; ids grow with created_at.
Newest(D) ==
    {d \in D : Cardinality({e \in D : e.link = d.link /\ e.id > d.id}) < MaxDevices}

\* Mutants: the inserted row not tied to the session, or not tied to the link.
InsertFromReadSession(s) == session[s].status # "over" /\ link.id = session[s].link
InsertWithoutLink(s) == session[s].status = "linked"

\* INSERT INTO devices: only from an unconsumed session whose link still exists.
MayInsertDevice(s) == session[s].status = "linked" /\ link.id = session[s].link

\* deliverCredentials: insert, consume and evict in one batch.
PollDelivers(s, k) ==
    /\ poll[s][k].at = "batch"
    /\ IF MayInsertDevice(s)
       THEN /\ deviceIds' = deviceIds + 1
            /\ devices' = Newest(devices \cup {[id |-> deviceIds', link |-> session[s].link]})
            /\ session' = [session EXCEPT ![s] = [status |-> "consumed", age |-> 0, link |-> @.link]]
            /\ poll' = [poll EXCEPT ![s][k] = Answered("linked", deviceIds')]
            /\ delivered' = [delivered EXCEPT ![s] = @ + 1]
       ELSE /\ poll' = [poll EXCEPT ![s][k] = Answered("over", 0)]
            /\ UNCHANGED <<deviceIds, devices, session, delivered>>
    /\ UNCHANGED <<link, callback, refresh, unlinking, accepted, tokens, links, expiries, faults,
                   ended>>

\* 5xx: D1 fails, issuance is disabled, the request dies.
PollFails(s, k) ==
    /\ poll[s][k].at \in {"read", "batch"}
    /\ Fault
    /\ poll' = [poll EXCEPT ![s][k] = Answered("error", 0)]
    /\ UNCHANGED <<rows, callback, refresh, unlinking, accepted, ids, expiries, history>>

-----------------------------------------------------------------------------
\* POST entitlement/refresh

\* Mutant: the lock is not looked at.
LockIgnored == TRUE

\* refresh_lock_until IS NULL OR refresh_lock_until < now
LockFree == ~link.lock

RefreshGoes(a, step) == refresh' = [refresh EXCEPT ![a].at = step]

\* Goes on to call Patreon with a token it has read.
RefreshUses(a, step) ==
    refresh' = [refresh EXCEPT ![a] =
                   [at |-> step, says |-> "none", device |-> refresh[a].device,
                    link |-> link.id, token |-> link.token, version |-> link.version]]

RefreshAnswers(a, answer) ==
    refresh' = [refresh EXCEPT ![a] = [NoRefresh EXCEPT !.at = "answered", !.says = answer,
                                                        !.device = refresh[a].device]]

\* UPDATE patreon_links ... WHERE link_id = ?1
UpdateLink(a, row) == link' = IF link.id = refresh[a].link THEN row ELSE link

RefreshUnchanged ==
    UNCHANGED <<session, devices, callback, poll, unlinking, ids, expiries, delivered>>

\* tryDecrypt finds that the stored token is unreadable: markReauth is next, as after a refusal.
Unreadable(a) == Fault /\ RefreshUses(a, "wipe")

\* handleRefresh: the device with its link, and whether Patreon has to be asked: the cached
\* verification may be stale or not, and is when the token has become old.
RefreshLooksUp(a) ==
    /\ refresh[a].at = "lookup"
    /\ LET known == \E d \in devices : d.id = refresh[a].device /\ d.link = link.id IN
         \/ ~(known /\ link.active) /\ RefreshAnswers(a, "refused") /\ UNCHANGED faults
         \/ known /\ link.active /\ ~link.expiring /\ RefreshAnswers(a, "lease") /\ UNCHANGED faults
         \/ /\ known /\ link.active
            /\ RefreshUses(a, IF link.expiring THEN "lock" ELSE "identity") /\ UNCHANGED faults
         \/ known /\ link.active /\ ~link.expiring /\ Unreadable(a)
    /\ UNCHANGED <<link, accepted, ended>> /\ RefreshUnchanged

\* Mutant: the token read before the lock was taken is good enough.
RefreshTrustsLookup(a) ==
    /\ refresh[a].at = "lock"
    /\ IF link.id = refresh[a].link /\ link.active /\ LockFree
       THEN link' = [link EXCEPT !.lock = TRUE] /\ RefreshGoes(a, "token")
       ELSE RefreshAnswers(a, "later") /\ UNCHANGED link
    /\ UNCHANGED <<accepted, faults, ended>> /\ RefreshUnchanged

\* refreshUnderLock: the conditional lock, or 503 refresh_busy.  The row is read again under the
\* lock, which is kept if its token still has to be refreshed: another request may have done it.
RefreshLocks(a) ==
    /\ refresh[a].at = "lock"
    /\ IF link.id = refresh[a].link /\ link.active /\ LockFree
       THEN /\ link' = [link EXCEPT !.lock = link.expiring]
            /\ \/ RefreshUses(a, IF link.expiring THEN "token" ELSE "identity") /\ UNCHANGED faults
               \/ Unreadable(a)
       ELSE RefreshAnswers(a, "later") /\ UNCHANGED <<link, faults>>
    /\ UNCHANGED <<accepted, ended>> /\ RefreshUnchanged

\* refreshTokens: a token Patreon accepts is exchanged for a new one, once.
TokenIsRotated(a) ==
    /\ refresh[a].at = "token" /\ refresh[a].token \in accepted
    /\ tokens' = tokens + 1
    /\ accepted' = (accepted \ {refresh[a].token}) \cup {tokens'}
    /\ refresh' = [refresh EXCEPT ![a].at = "persist", ![a].token = tokens']
    /\ UNCHANGED <<rows, callback, poll, unlinking, links, deviceIds, expiries, faults, history>>

\* invalid_grant from the token call, 401 from the identity call.
TokenIsRefused(a) ==
    /\ refresh[a].at \in {"token", "identity"} /\ refresh[a].token \notin accepted
    /\ RefreshGoes(a, "wipe")
    /\ UNCHANGED <<link, accepted, faults, ended>> /\ RefreshUnchanged

\* Mutant: the tokens are written whatever the row holds by now.
PersistUnversioned(a) ==
    /\ refresh[a].at = "persist"
    /\ UpdateLink(a, WithTokens(link.id, link.active, refresh[a].token, link.version + 1))
    /\ RefreshGoes(a, "identity")
    /\ UNCHANGED <<accepted, faults, ended>> /\ RefreshUnchanged

\* The new tokens are written unless a re-link has bumped token_version.
RefreshPersists(a) ==
    /\ refresh[a].at = "persist"
    /\ IF link.version = refresh[a].version
       THEN UpdateLink(a, WithTokens(link.id, link.active, refresh[a].token, link.version + 1))
       ELSE UNCHANGED link
    /\ RefreshGoes(a, "identity")
    /\ UNCHANGED <<accepted, faults, ended>> /\ RefreshUnchanged

\* Mutant: the tokens are cleared, the status stays.
WipeTokensOnly(a) ==
    /\ refresh[a].at = "wipe"
    /\ UpdateLink(a, [link EXCEPT !.token = 0, !.lock = FALSE])
    /\ RefreshAnswers(a, "refused")
    /\ UNCHANGED <<accepted, faults, ended>> /\ RefreshUnchanged

\* markReauth, whatever the row holds by now.
RefreshWipes(a) ==
    /\ refresh[a].at = "wipe"
    /\ UpdateLink(a, [link EXCEPT !.active = FALSE, !.token = 0, !.lock = FALSE])
    /\ RefreshAnswers(a, "refused")
    /\ UNCHANGED <<accepted, faults, ended>> /\ RefreshUnchanged

\* verify reads the membership, caches the result, and the lease is issued.  The access token
\* may go on working when the refresh token that came with it does not.
RefreshVerifies(a) ==
    /\ refresh[a].at = "identity"
    /\ RefreshAnswers(a, "lease")
    /\ UNCHANGED <<link, accepted, faults, ended>> /\ RefreshUnchanged

\* Patreon answers the token call with an error, or its answer is lost after the rotation.
TokenCallFails(a) ==
    /\ refresh[a].at = "token"
    /\ Fault
    /\ \/ UNCHANGED <<accepted, ended>>
       \/ /\ accepted' = accepted \ {refresh[a].token}
          /\ ended' = ended \cup (accepted \cap {refresh[a].token})
    /\ UpdateLink(a, [link EXCEPT !.lock = FALSE])
    /\ RefreshAnswers(a, "later")
    /\ RefreshUnchanged

\* The row is the one it has read.
RowAsRead(a) == link.id = refresh[a].link /\ link.version = refresh[a].version

\* Throttled, switched off, Patreon or D1 unavailable, or the request dies; a lock it held
\* stays.  New tokens that were not written are lost, and the used ones stay in their row.
RefreshFails(a) ==
    /\ refresh[a].at \notin {"none", "answered"}
    /\ Fault
    /\ RefreshAnswers(a, "later")
    /\ ended' = IF refresh[a].at = "persist" /\ RowAsRead(a) THEN ended \cup {link.token} ELSE ended
    /\ UNCHANGED <<link, accepted>> /\ RefreshUnchanged

\* The lock expires after REFRESH_LOCK_S: its holder, whose calls time out sooner, is gone.
LockExpires ==
    /\ link.lock
    /\ \A a \in Apps : refresh[a].at \notin {"token", "persist"}
    /\ link' = [link EXCEPT !.lock = FALSE]
    /\ UNCHANGED <<session, devices, requests, accepted, ids, expiries, faults, history>>

-----------------------------------------------------------------------------
\* POST unlink

\* handleUnlink: the device, and with the last one the link and its tokens.
UnlinkRemoves(a) ==
    /\ unlinking[a] # 0
    /\ LET gone == {d \in devices : d.id = unlinking[a]} IN
         /\ devices' = devices \ gone
         /\ link' = IF /\ \E d \in gone : d.link = link.id
                       /\ ~\E d \in devices' : d.link = link.id
                    THEN NoLink ELSE link
    /\ unlinking' = [unlinking EXCEPT ![a] = 0]
    /\ UNCHANGED <<session, callback, poll, refresh, accepted, ids, expiries, faults, history>>

UnlinkFails(a) ==
    /\ unlinking[a] # 0
    /\ Fault
    /\ unlinking' = [unlinking EXCEPT ![a] = 0]
    /\ UNCHANGED <<rows, callback, poll, refresh, accepted, ids, expiries, history>>

-----------------------------------------------------------------------------
\* runPatreonMaintenance, one statement at a time

\* Sessions 24 h past their expiry.
MaintainSessions(s) ==
    /\ session[s].age = 4 /\ callback[s].at = "none"
    /\ session' = [session EXCEPT ![s] = Over]
    /\ UNCHANGED <<link, devices, requests, accepted, ids, expiries, faults, history>>

Quiet == \A a \in Apps : refresh[a].at = "none" /\ unlinking[a] = 0

\* Devices idle for 60 days: no request of that time is still being served.
MaintainDevices(d) ==
    /\ d \in devices /\ Quiet
    /\ devices' = devices \ {d}
    /\ UNCHANGED <<session, link, requests, accepted, ids, expiries, faults, history>>

\* A finished session that still waits for its first poll, until a day and an hour after its
\* expiry, of which the hour is left out.
Awaited(s) == session[s].status = "linked" /\ session[s].link = link.id /\ session[s].age < 4

\* Inserted by a callback that has not finished, seconds ago.
Young ==
    link.version = 1 /\ \E s \in Sessions : callback[s].at = "finish" /\ callback[s].link = link.id

\* No device, not awaited, and created more than an hour ago.
Orphan ==
    /\ ~\E d \in devices : d.link = link.id
    /\ ~\E s \in Sessions : Awaited(s)
    /\ ~Young

MaintainLinks ==
    /\ link.id # 0 /\ Orphan
    /\ link' = NoLink
    /\ UNCHANGED <<session, devices, requests, accepted, ids, expiries, faults, history>>

-----------------------------------------------------------------------------
\* Time, and what the user does at Patreon

\* The ages at which something becomes of a session.
AgesOf(status) ==
    CASE status = "pending" -> {1, 4}
      [] status = "exchanging" -> {2, 4}
      [] status = "linked" -> {3, 4}
      [] OTHER -> {}

SessionAges(s) ==
    \E age \in AgesOf(session[s].status) :
        /\ age > session[s].age
        /\ session' = [session EXCEPT ![s].age = age]
        /\ UNCHANGED <<link, devices, requests, accepted, ids, expiries, faults, history>>

\* The token comes within TOKEN_REFRESH_WINDOW_S of its expiry.  It was issued weeks ago: nobody
\* who is being served has read an older one, and no callback has just written it.
TokenNearsExpiry ==
    /\ link.active /\ ~link.expiring /\ expiries < MaxExpiries
    /\ \A a \in Apps : refresh[a].token \in {0, link.token}
    /\ \A s \in Sessions : callback[s].at # "finish"
    /\ link' = [link EXCEPT !.expiring = TRUE]
    /\ expiries' = expiries + 1
    /\ UNCHANGED <<session, devices, requests, accepted, ids, faults, history>>

\* The user removes the app at Patreon.
UserRevokes ==
    /\ accepted # {}
    /\ Fault
    /\ accepted' = {} /\ ended' = ended \cup accepted
    /\ UNCHANGED <<rows, requests, ids, expiries, delivered>>
=============================================================================
