---------------------------- MODULE PatreonLink ----------------------------
(***************************************************************************)
(* cloud/patreon.py: the desktop side of the Patreon link, composed with   *)
(* the Worker of PatreonService.  An app runs the link worker (start the   *)
(* session, open the browser, poll), one refresh of its lease at a time,   *)
(* and the removal of a device it has disconnected; each is a thread, and  *)
(* a call that times out goes on being served.                            *)
(*                                                                         *)
(* A device and the lease issued for it are the device's number, 0 none.   *)
(***************************************************************************)
EXTENDS PatreonService

CONSTANTS
    Linkers,        \* bound: the apps whose user links and disconnects them
    LinkedFirst     \* bound: apps that, if linked earlier, were linked before the others

ASSUME LinkersAssumption == Linkers \subseteq Apps

VARIABLE app    \* PatreonLink and its store, per installed app

vars == <<serviceVars, app>>

\* linking: the link worker; slot: the poll it waits for
NoApp == [linking |-> "no", session |-> 0, slot |-> 0, device |-> 0, lease |-> 0, reconnect |-> FALSE]

TypeOK ==
    /\ ServiceTypeOK
    /\ app \in [Apps -> [linking : {"no", "polling", "waiting"},
                         session : 0..MaxSessions, slot : {0} \cup Slots,
                         device : Nat, lease : Nat, reconnect : BOOLEAN]]

\* Some of the apps were linked earlier; number is the order in which they were.
Init ==
    \E linked \in SUBSET Apps : \E number \in [linked -> 1..Cardinality(linked)] :
        /\ \A a, b \in linked : number[a] = number[b] => a = b
        /\ \A a \in linked \cap LinkedFirst, b \in linked \ LinkedFirst : number[a] < number[b]
        /\ Cardinality(linked) <= MaxDevices
        /\ session = [s \in Sessions |-> [status |-> "none", age |-> 0, link |-> 0]]
        /\ link = IF linked = {} THEN NoLink
                  ELSE WithTokens(1, TRUE, 1, 1)
        /\ devices = {[id |-> number[a], link |-> 1] : a \in linked}
        /\ callback = [s \in Sessions |-> NoCallback]
        /\ poll = [s \in Sessions |-> [k \in Slots |-> NoPoll]]
        /\ refresh = [a \in Apps |-> NoRefresh]
        /\ unlinking = [a \in Apps |-> 0]
        /\ accepted = {link.token} \ {0} /\ tokens = link.token /\ links = link.id
        /\ deviceIds = Cardinality(linked)
        /\ expiries = 0 /\ faults = 0
        /\ delivered = [s \in Sessions |-> 0] /\ ended = {}
        /\ app = [a \in Apps |-> IF a \in linked
                                 THEN [NoApp EXCEPT !.device = number[a], !.lease = number[a]]
                                 ELSE NoApp]

Usable(a) == app[a].device # 0 /\ app[a].lease = app[a].device

-----------------------------------------------------------------------------
\* The link worker

\* _finish_link
FinishLink(a) ==
    app' = [app EXCEPT ![a].linking = "no", ![a].session = 0, ![a].slot = 0]

\* start_link, which the panel offers unless the app is connected and working, and _link_worker
\* up to the opened browser.  When the Worker refuses, nothing changes.
StartLink(a) ==
    /\ a \in Linkers /\ app[a].linking = "no"
    /\ app[a].device = 0 \/ app[a].reconnect \/ ~Usable(a)
    /\ \E s \in Unused :
         /\ StartSession(s)
         /\ app' = [app EXCEPT ![a].linking = "polling", ![a].session = s]
    /\ UNCHANGED <<link, devices, requests, accepted, ids, expiries, faults, history>>

\* cancel_link, seen at the head of the loop of _poll; _cancel_remote may fail.
PollCancelled(a) ==
    /\ app[a].linking = "polling"
    /\ CancelSession(app[a].session) \/ UNCHANGED session
    /\ FinishLink(a)
    /\ UNCHANGED <<link, devices, requests, accepted, ids, expiries, faults, history>>

\* _poll: past the deadline by the clock of the app, or a browser that did not open.
PollTimesOut(a) ==
    /\ app[a].linking = "polling"
    /\ FinishLink(a)
    /\ UNCHANGED serviceVars

\* A poll that finds the session pending changes nothing and is left out.
SendPoll(a) ==
    LET s == app[a].session IN
    /\ app[a].linking = "polling" /\ Status(s) # "pending"
    /\ \E k \in Slots :
         /\ poll[s][k].at = "none" /\ \A j \in Slots : poll[s][j].at = "none" => k <= j
         /\ poll' = [poll EXCEPT ![s][k].at = "read"]
         /\ app' = [app EXCEPT ![a].linking = "waiting", ![a].slot = k]
    /\ UNCHANGED <<rows, callback, refresh, unlinking, accepted, ids, expiries, faults, history>>

\* _poll with the answer, and _complete: the credential, the lease and the status are stored.
ReceivePoll(a) ==
    LET s == app[a].session
        k == app[a].slot IN
    /\ app[a].linking = "waiting" /\ poll[s][k].at = "answered"
    /\ poll' = [poll EXCEPT ![s][k] = NoPoll]
    /\ CASE poll[s][k].says \in {"pending", "error"} ->
              app' = [app EXCEPT ![a].linking = "polling", ![a].slot = 0]
         [] poll[s][k].says = "linked" ->
              app' = [app EXCEPT ![a] = [NoApp EXCEPT !.device = poll[s][k].device,
                                                      !.lease = poll[s][k].device]]
         [] OTHER -> FinishLink(a)
    /\ UNCHANGED <<rows, callback, refresh, unlinking, accepted, ids, expiries, faults, history>>

\* The call times out while it is being served, or its answer is lost.  An app that is closed
\* leaves the same behind, and then no longer polls; its device and lease are in the store.
LosePoll(a) ==
    /\ app[a].linking = "waiting"
    /\ Fault
    /\ app' = [app EXCEPT ![a].linking = "polling", ![a].slot = 0]
    /\ UNCHANGED <<rows, requests, accepted, ids, expiries, history>>

\* Nobody waits for this answer any more.
DropPoll(s, k) ==
    /\ poll[s][k].at = "answered"
    /\ ~\E a \in Apps : app[a].session = s /\ app[a].slot = k
    /\ poll' = [poll EXCEPT ![s][k] = NoPoll]
    /\ UNCHANGED <<rows, callback, refresh, unlinking, accepted, ids, expiries, faults, history,
                   app>>

-----------------------------------------------------------------------------
\* Refresh

\* tick and refresh: refresh_due when the lease is unusable or a day old, or the panel's Retry.
SendRefresh(a) ==
    /\ app[a].linking = "no" /\ refresh[a].at = "none"
    /\ app[a].device # 0 /\ ~app[a].reconnect
    /\ refresh' = [refresh EXCEPT ![a].at = "lookup", ![a].device = app[a].device]
    /\ UNCHANGED <<rows, callback, poll, unlinking, accepted, ids, expiries, faults, history, app>>

\* _apply_refresh, for whatever device the app holds by now.
ReceiveRefresh(a) ==
    /\ refresh[a].at = "answered"
    /\ app' = [app EXCEPT
         ![a].lease = CASE refresh[a].says = "lease" -> refresh[a].device
                        [] refresh[a].says = "refused" -> 0
                        [] OTHER -> @,
         ![a].reconnect = @ \/ refresh[a].says = "refused"]
    /\ refresh' = [refresh EXCEPT ![a] = NoRefresh]
    /\ UNCHANGED <<rows, callback, poll, unlinking, accepted, ids, expiries, faults, history>>

\* The call times out or its answer is lost.
LoseRefresh(a) ==
    /\ refresh[a].at = "answered" /\ refresh[a].says # "later"
    /\ Fault
    /\ refresh' = [refresh EXCEPT ![a].says = "later"]
    /\ UNCHANGED <<rows, callback, poll, unlinking, accepted, ids, expiries, history, app>>

\* Seven days without a refresh.
LeaseExpires(a) ==
    /\ a \in Linkers /\ Usable(a) /\ expiries < MaxExpiries
    /\ app' = [app EXCEPT ![a].lease = 0]
    /\ expiries' = expiries + 1
    /\ UNCHANGED <<rows, requests, accepted, ids, faults, history>>

-----------------------------------------------------------------------------
\* Disconnecting

\* unlink, which the panel offers when the app is connected or asks to reconnect.
Unlink(a) ==
    /\ a \in Linkers /\ app[a].linking = "no" /\ unlinking[a] = 0
    /\ app[a].device # 0 \/ app[a].reconnect
    /\ app' = [app EXCEPT ![a].device = 0, ![a].lease = 0, ![a].reconnect = FALSE]
    /\ unlinking' = [unlinking EXCEPT ![a] = app[a].device]
    /\ UNCHANGED <<rows, callback, poll, refresh, accepted, ids, expiries, faults, history>>

-----------------------------------------------------------------------------
AppStep(a) ==
    \/ StartLink(a) \/ PollCancelled(a) \/ PollTimesOut(a)
    \/ SendPoll(a) \/ ReceivePoll(a) \/ LosePoll(a)
    \/ SendRefresh(a) \/ ReceiveRefresh(a) \/ LoseRefresh(a) \/ LeaseExpires(a)
    \/ Unlink(a)

BrowserStep(s) ==
    \/ CallbackDenied(s) \/ CallbackConsumes(s) \/ CallbackExchanges(s)
    \/ CallbackUpdates(s) \/ CallbackInserts(s) \/ CallbackFinishes(s) \/ CallbackFails(s)

PollServed(s, k) == PollReads(s, k) \/ PollDelivers(s, k)

RefreshServed(a) ==
    \/ RefreshLooksUp(a) \/ RefreshLocks(a)
    \/ TokenIsRotated(a) \/ TokenIsRefused(a) \/ RefreshPersists(a) \/ RefreshWipes(a)
    \/ RefreshVerifies(a)

ServiceStep ==
    \/ \E s \in Sessions : BrowserStep(s) \/ MaintainSessions(s) \/ SessionAges(s)
    \/ \E s \in Sessions, k \in Slots : PollServed(s, k) \/ PollFails(s, k)
    \/ \E a \in Apps : RefreshServed(a) \/ TokenCallFails(a) \/ RefreshFails(a)
                          \/ UnlinkRemoves(a) \/ UnlinkFails(a)
    \/ \E d \in devices : MaintainDevices(d)
    \/ MaintainLinks \/ LockExpires
    \/ TokenNearsExpiry \/ UserRevokes

Next ==
    \/ \E a \in Apps : AppStep(a)
    \/ \E s \in Sessions, k \in Slots : DropPoll(s, k)
    \/ ServiceStep /\ UNCHANGED app

Spec == Init /\ [][Next]_vars

-----------------------------------------------------------------------------
(***************************************************************************)
(* Properties                                                              *)
(***************************************************************************)

\* A device row always has its link: no foreign key keeps them together, only the conditions
\* of the statements that insert devices and delete links, with an unlink or the maintenance
\* between a poll that read the session and the one that delivers.
DeviceHasLink == \A d \in devices : d.link = link.id

\* The credentials of a session are given out at most once, and a consumed session has given
\* them out: two polls of one session (the first timed out) may be served at the same time.
DeliveredOnce ==
    \A s \in Sessions :
        /\ delivered[s] <= 1
        /\ session[s].status = "consumed" => delivered[s] = 1
        /\ session[s].status = "linked" => delivered[s] = 0

\* Two requests never present one refresh token to Patreon at the same time, with a lock that
\* a re-link clears, a dead request leaves behind and everybody may release.
OneTokenCall ==
    \A a, b \in Apps :
        a # b /\ refresh[a].at = "token" /\ refresh[b].at = "token"
            => refresh[a].token # refresh[b].token

\* Refresh tokens are single-use: no token call ever presents a token that an earlier call has
\* used, whoever read it when.  Excepted are tokens that Patreon ended by itself and those whose
\* replacement was lost before it was written.
TokensAreUsedOnce ==
    \A a \in Apps : refresh[a].at = "token" => refresh[a].token \in accepted \cup ended

\* A refresh that was overtaken by a re-link never puts its older token back.
RotationKeepsRelink ==
    [][link'.id = link.id /\ link'.token \in 1..(link.token - 1) => callback' # callback]_vars
=============================================================================
