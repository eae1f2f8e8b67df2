---------------------------- MODULE PatreonProofs ----------------------------
(***************************************************************************)
(* The safety properties of PatreonLink and PatreonService, for any finite *)
(* set of apps and any number of sessions, devices, expiries and faults.   *)
(***************************************************************************)
EXTENDS PatreonLink, FiniteSetTheorems, TLAPS

-----------------------------------------------------------------------------
(* The inductive invariant.                                                 *)

\* A refresh that has read the row and still holds what it read.
Using == {"lock", "token", "persist", "wipe", "identity"}

\* A refresh that presents a refresh token, or has yet to store the answer.
Calls(a) == refresh[a].at \in {"token", "persist"}

\* The row is still the one the refresh has read.
Current(a) == refresh[a].link = link.id /\ refresh[a].version = link.version

\* Requests carry rows and tokens that exist or existed, and an app that links has a session.
RequestInv ==
    /\ \A a \in Apps :
          /\ app[a].linking # "no" => app[a].session \in Sessions
          /\ app[a].linking = "waiting" => app[a].slot \in Slots
    /\ \A s \in Sessions :
          /\ session[s].status = "linked" => session[s].link # 0
          /\ callback[s].at = "finish" => callback[s].link # 0
          /\ callback[s].at = "write" => callback[s].token # 0
    /\ \A a \in Apps :
          IF refresh[a].at \in Using
          THEN refresh[a].link # 0 /\ refresh[a].token # 0
          ELSE refresh[a].link = 0 /\ refresh[a].token = 0 /\ refresh[a].version = 0

DeviceInv == \A d \in devices : d.link # 0 /\ d.link = link.id

DeliveredInv ==
    \A s \in Sessions :
        IF session[s].status \in {"consumed", "over"}
        THEN delivered[s] <= 1 /\ (session[s].status = "consumed" => delivered[s] = 1)
        ELSE delivered[s] = 0

\* At most one app calls, and whoever comes meanwhile finds the lock or has no
\* reason to take it.
LockInv ==
    /\ \A a \in Apps : Calls(a) => ~(link.active /\ link.expiring /\ ~link.lock)
    /\ \A a, b \in Apps : Calls(a) /\ Calls(b) => a = b

\* What a refresh holds is not younger than the row, except for a token it has yet to store.
RefreshAge(a) ==
    /\ refresh[a].token <= tokens /\ refresh[a].link <= links
    /\ refresh[a].link = link.id => refresh[a].version <= link.version
    /\ refresh[a].at = "persist" /\ Current(a) => link.token < refresh[a].token

\* Identifiers only grow, and so does the version of a row.
AgeInv ==
    /\ link.token <= tokens /\ link.id <= links
    /\ \A s \in Sessions : callback[s].token <= tokens /\ callback[s].link <= links
    /\ \A t \in accepted : t <= tokens
    /\ \A a \in Apps : RefreshAge(a)

\* No token call has used the token up.
Good == accepted \cup ended

\* The row's token is good, or the one that calls has its replacement.
LinkTokenInv ==
    link.active =>
        \/ link.token \in Good
        \/ /\ link.expiring /\ link.lock
           /\ \E a \in Apps : refresh[a].at = "persist" /\ Current(a)

\* A refresh that calls holds a good token: the row's under the lock, or its replacement.
RefreshTokenInv ==
    \A a \in Apps :
        /\ Calls(a) => refresh[a].token \in Good
        /\ refresh[a].at = "token" /\ link.active /\ link.token = refresh[a].token
              => Current(a) /\ link.expiring /\ link.lock
        /\ refresh[a].at = "persist" => link.token # refresh[a].token

\* A callback alone knows the token it has yet to store.
CallbackTokenInv ==
    \A s \in Sessions : callback[s].at = "write" =>
        /\ callback[s].token \in Good
        /\ link.token # callback[s].token
        /\ \A a \in Apps : Calls(a) => refresh[a].token # callback[s].token
        /\ \A t \in Sessions :
              callback[t].at = "write" /\ callback[t].token = callback[s].token => t = s

TokenInv == LinkTokenInv /\ RefreshTokenInv /\ CallbackTokenInv

PatreonInv ==
    /\ TypeOK /\ RequestInv /\ DeviceInv /\ DeliveredInv /\ LockInv /\ AgeInv
    /\ TokenInv

-----------------------------------------------------------------------------
(* Types.                                                                   *)

SessionRow == [status : {"none", "pending", "exchanging", "linked", "consumed", "over"},
               age : 0..4, link : Nat]
LinkRow == [id : Nat, active : BOOLEAN, token : Nat, version : Nat, lock : BOOLEAN,
            expiring : BOOLEAN]
CallbackRow == [at : {"none", "exchange", "write", "finish"}, token : Nat, link : Nat]
PollRow == [at : {"none", "read", "batch", "answered"},
            says : {"none", "linked", "pending", "over", "error"}, device : Nat]
RefreshRow == [at : {"none", "lookup", "lock", "token", "persist", "wipe", "identity",
                     "answered"},
               says : {"none", "lease", "refused", "later"},
               device : Nat, link : Nat, token : Nat, version : Nat]
AppRow == [linking : {"no", "polling", "waiting"}, session : 0..MaxSessions,
           slot : {0} \cup Slots, device : Nat, lease : Nat, reconnect : BOOLEAN]

LinkOK ==
    /\ link \in LinkRow
    /\ link.id = 0 => link = NoLink
    /\ link.active => link.token # 0

\* TypeOK, one row type per variable.
RowTypes ==
    /\ session \in [Sessions -> SessionRow] /\ LinkOK
    /\ devices \subseteq [id : Nat, link : Nat]
    /\ callback \in [Sessions -> CallbackRow]
    /\ poll \in [Sessions -> [Slots -> PollRow]]
    /\ refresh \in [Apps -> RefreshRow]
    /\ unlinking \in [Apps -> Nat]
    /\ accepted \subseteq Nat
    /\ tokens \in Nat /\ links \in Nat /\ deviceIds \in Nat
    /\ expiries \in Nat /\ faults \in Nat
    /\ delivered \in [Sessions -> Nat] /\ ended \subseteq Nat
    /\ app \in [Apps -> AppRow]

LEMMA TypeByRow == (TypeOK <=> RowTypes) /\ (TypeOK' <=> RowTypes')
  BY DEF RowTypes, TypeOK, ServiceTypeOK, LinkOK, SessionRow, LinkRow, CallbackRow, PollRow,
         RefreshRow, AppRow

LEMMA Constants ==
    /\ NoLink \in LinkRow /\ NoCallback \in CallbackRow /\ NoPoll \in PollRow
    /\ NoRefresh \in RefreshRow /\ NoApp \in AppRow /\ Over \in SessionRow
    /\ ~NoLink.active /\ NoLink.id = 0 /\ NoLink.token = 0
  BY ServiceBoundAssumption
     DEF NoLink, NoCallback, NoPoll, NoRefresh, NoApp, Over, LinkRow, CallbackRow, PollRow,
         RefreshRow, AppRow, SessionRow

\* The row after new tokens were stored.
LEMMA WithTokensType ==
    ASSUME NEW id \in Nat, NEW status \in BOOLEAN, NEW token \in Nat, NEW version \in Nat
    PROVE  /\ WithTokens(id, status, token, version) \in LinkRow
           /\ WithTokens(id, status, token, version).id = id
           /\ WithTokens(id, status, token, version).token = token
           /\ WithTokens(id, status, token, version).version = version
           /\ WithTokens(id, status, token, version).active = status
           /\ ~WithTokens(id, status, token, version).expiring
           /\ ~WithTokens(id, status, token, version).lock
  BY DEF WithTokens, LinkRow

LEMMA WithTokensOK ==
    ASSUME NEW id \in Nat \ {0}, NEW status \in BOOLEAN, NEW token \in Nat \ {0},
           NEW version \in Nat, link' = WithTokens(id, status, token, version)
    PROVE  LinkOK'
  BY WithTokensType DEF LinkOK

LEMMA UnchangedOK == LinkOK /\ link' = link => LinkOK'
  BY DEF LinkOK

LEMMA NewestOf == ASSUME NEW D PROVE Newest(D) \subseteq D
  BY DEF Newest

\* Callbacks keep the types.
LEMMA BrowserTypes ==
    ASSUME PatreonInv, UNCHANGED app, NEW s \in Sessions, BrowserStep(s)
    PROVE  RowTypes'
<1>0. RowTypes /\ RequestInv
  BY TypeByRow DEF PatreonInv
<1> USE <1>0, Constants DEF RowTypes, rows, requests, ids, history
<1>1. CASE CallbackDenied(s)
  BY <1>1 DEF CallbackDenied, LinkOK
<1>2. CASE CallbackConsumes(s)
  <2>1. session' \in [Sessions -> SessionRow]
    BY <1>2 DEF CallbackConsumes, SessionRow
  <2>2. callback' \in [Sessions -> CallbackRow]
    BY <1>2 DEF CallbackConsumes, CallbackRow
  <2> QED
    BY <1>2, <2>1, <2>2 DEF CallbackConsumes, LinkOK
<1>3. CASE CallbackExchanges(s)
  <2>1. callback' \in [Sessions -> CallbackRow]
    BY <1>3 DEF CallbackExchanges, CallbackRow, LinkOK, LinkRow
  <2>2. tokens' \in Nat /\ accepted' \subseteq Nat
    BY <1>3 DEF CallbackExchanges
  <2>3. ended' \subseteq Nat
    BY <1>3 DEF CallbackExchanges
  <2> QED
    BY <1>3, <2>1, <2>2, <2>3 DEF CallbackExchanges, LinkOK
<1>4. CASE CallbackUpdates(s)
  <2>1. callback' \in [Sessions -> CallbackRow]
    BY <1>4 DEF CallbackUpdates, CallbackRow
  <2>2. LinkOK'
    <3>1. callback[s].token \in Nat \ {0} /\ callback[s].link # 0
      BY <1>4 DEF CallbackUpdates, CallbackRow, RequestInv
    <3>2. CASE link.id = callback[s].link
      <4>1. link' = WithTokens(link.id, TRUE, callback[s].token, link.version + 1)
        BY <1>4, <3>2 DEF CallbackUpdates
      <4>2. link.id \in Nat \ {0} /\ link.version + 1 \in Nat
        BY <3>1, <3>2 DEF LinkOK, LinkRow
      <4> QED
        BY <3>1, <4>1, <4>2, WithTokensOK
    <3>3. CASE link.id # callback[s].link
      BY <1>4, <3>3 DEF CallbackUpdates, LinkOK
    <3> QED
      BY <3>2, <3>3
  <2> QED
    BY <1>4, <2>1, <2>2 DEF CallbackUpdates
<1>5. CASE CallbackInserts(s)
  <2>1. callback[s].token \in Nat \ {0} /\ callback[s] \in CallbackRow
    BY <1>5 DEF CallbackInserts, CallbackRow, RequestInv
  <2>2. CASE link.id = 0
    <3>1. links' \in Nat \ {0} /\ link' = WithTokens(links', TRUE, callback[s].token, 1)
      BY <1>5, <2>2 DEF CallbackInserts
    <3>2. LinkOK'
      BY <2>1, <3>1, WithTokensOK
    <3>3. callback' = [callback EXCEPT ![s].at = "finish", ![s].link = links']
      BY <1>5, <2>2 DEF CallbackInserts
    <3>4. callback' \in [Sessions -> CallbackRow]
      BY <3>1, <3>3 DEF CallbackRow
    <3> QED
      BY <1>5, <3>1, <3>2, <3>4 DEF CallbackInserts
  <2>3. CASE link.id # 0
    <3>1. link' = link /\ links' = links /\ callback' = [callback EXCEPT ![s].link = link.id]
      BY <1>5, <2>3 DEF CallbackInserts
    <3>2. callback' \in [Sessions -> CallbackRow]
      BY <3>1 DEF CallbackRow, LinkOK, LinkRow
    <3> QED
      BY <1>5, <3>1, <3>2, UnchangedOK DEF CallbackInserts
  <2> QED
    BY <2>2, <2>3
<1>6. CASE CallbackFinishes(s)
  <2>1. session' \in [Sessions -> SessionRow]
    BY <1>6 DEF CallbackFinishes, SessionRow, CallbackRow
  <2> QED
    BY <1>6, <2>1 DEF CallbackFinishes, LinkOK
<1>7. CASE CallbackFails(s)
  <2>1. faults' \in Nat
    BY <1>7 DEF CallbackFails, Fault
  <2>2. session' \in [Sessions -> SessionRow]
    BY <1>7 DEF CallbackFails
  <2> QED
    BY <1>7, <2>1, <2>2 DEF CallbackFails, LinkOK
<1> QED
  BY <1>1, <1>2, <1>3, <1>4, <1>5, <1>6, <1>7 DEF BrowserStep

\* Polls keep them.
LEMMA PollTypes ==
    ASSUME PatreonInv, UNCHANGED app, NEW s \in Sessions, NEW k \in Slots,
           PollServed(s, k) \/ PollFails(s, k)
    PROVE  RowTypes'
<1>0. RowTypes
  BY TypeByRow DEF PatreonInv
<1> USE <1>0, Constants DEF RowTypes, rows, ids, history, LinkOK
<1>1. ASSUME NEW answer \in {"linked", "pending", "over", "error"}, NEW d \in Nat
      PROVE  [poll EXCEPT ![s][k] = Answered(answer, d)] \in [Sessions -> [Slots -> PollRow]]
  <2>1. Answered(answer, d) \in PollRow
    BY DEF Answered, PollRow
  <2> QED
    BY <2>1
<1>2. CASE PollReads(s, k)
  <2>1. [poll EXCEPT ![s][k] = [@ EXCEPT !.at = "batch"]] \in [Sessions -> [Slots -> PollRow]]
    <3>1. \A r \in PollRow : [r EXCEPT !.at = "batch"] \in PollRow
      BY DEF PollRow
    <3> QED
      BY <3>1
  <2>2. Status(s) \in {"pending", "over", "deliver"}
    BY DEF Status
  <2>3. poll' \in [Sessions -> [Slots -> PollRow]]
    <3>1. CASE Status(s) = "deliver"
      BY <1>2, <2>1, <3>1 DEF PollReads
    <3>2. CASE Status(s) # "deliver"
      BY <1>1, <1>2, <2>2, <3>2 DEF PollReads
    <3> QED
      BY <3>1, <3>2
  <2>4. session' \in [Sessions -> SessionRow]
    BY <1>2 DEF PollReads
  <2> QED
    BY <1>2, <2>3, <2>4 DEF PollReads
<1>3. CASE PollDelivers(s, k)
  <2>1. CASE MayInsertDevice(s)
    <3>1. deviceIds' \in Nat
      BY <1>3, <2>1 DEF PollDelivers
    <3>5. poll' \in [Sessions -> [Slots -> PollRow]]
      <4>1. poll' = [poll EXCEPT ![s][k] = Answered("linked", deviceIds')]
        BY <1>3, <2>1 DEF PollDelivers
      <4> QED
        BY <1>1, <3>1, <4>1
    <3>2. session' \in [Sessions -> SessionRow]
      <4>1. [status |-> "consumed", age |-> 0, link |-> session[s].link] \in SessionRow
        BY DEF SessionRow
      <4>2. session' = [session EXCEPT ![s] =
                          [status |-> "consumed", age |-> 0, link |-> session[s].link]]
        BY <1>3, <2>1 DEF PollDelivers
      <4> QED
        BY <4>1, <4>2
    <3>3. devices' \subseteq [id : Nat, link : Nat]
      <4>1. [id |-> deviceIds', link |-> session[s].link] \in [id : Nat, link : Nat]
        BY <3>1 DEF SessionRow
      <4> QED
        BY <1>3, <2>1, <4>1, NewestOf DEF PollDelivers
    <3>4. delivered' \in [Sessions -> Nat]
      BY <1>3, <2>1 DEF PollDelivers
    <3> QED
      BY <1>3, <3>1, <3>2, <3>3, <3>4, <3>5 DEF PollDelivers
  <2>2. CASE ~MayInsertDevice(s)
    <3>1. poll' \in [Sessions -> [Slots -> PollRow]]
      <4>1. poll' = [poll EXCEPT ![s][k] = Answered("over", 0)]
        BY <1>3, <2>2 DEF PollDelivers
      <4> QED
        BY <1>1, <4>1
    <3> QED
      BY <1>3, <2>2, <3>1 DEF PollDelivers
  <2> QED
    BY <2>1, <2>2
<1>4. CASE PollFails(s, k)
  <2>1. faults' \in Nat
    BY <1>4 DEF PollFails, Fault
  <2>2. poll' \in [Sessions -> [Slots -> PollRow]]
    BY <1>1, <1>4 DEF PollFails
  <2> QED
    BY <1>4, <2>1, <2>2 DEF PollFails
<1> QED
  BY <1>2, <1>3, <1>4 DEF PollServed

\* Refreshes keep them.
LEMMA RefreshTypes ==
    ASSUME PatreonInv, UNCHANGED app, NEW a \in Apps,
           RefreshServed(a) \/ TokenCallFails(a) \/ RefreshFails(a)
    PROVE  RowTypes'
<1>0. RowTypes /\ RequestInv
  BY TypeByRow DEF PatreonInv
<1> USE <1>0, Constants DEF RowTypes, rows, ids
<1>1. ASSUME NEW step \in {"token", "identity", "wipe", "persist"}
      PROVE  [refresh EXCEPT ![a].at = step] \in [Apps -> RefreshRow]
  BY DEF RefreshRow
<1>2. ASSUME NEW step \in {"lock", "token", "identity", "wipe"}, RefreshUses(a, step)
      PROVE  refresh' \in [Apps -> RefreshRow]
  <2>1. refresh[a].device \in Nat /\ link.id \in Nat /\ link.token \in Nat /\ link.version \in Nat
    BY DEF RefreshRow, LinkOK, LinkRow
  <2>2. [at |-> step, says |-> "none", device |-> refresh[a].device, link |-> link.id,
         token |-> link.token, version |-> link.version] \in RefreshRow
    BY <2>1 DEF RefreshRow
  <2> QED
    BY <1>2, <2>2 DEF RefreshUses
<1>3. ASSUME NEW answer \in {"lease", "refused", "later"}, RefreshAnswers(a, answer)
      PROVE  refresh' \in [Apps -> RefreshRow]
  BY <1>3 DEF RefreshAnswers, RefreshRow, NoRefresh
<1>4. CASE RefreshLooksUp(a)
  <2>1. refresh' \in [Apps -> RefreshRow]
    BY <1>2, <1>3, <1>4 DEF RefreshLooksUp, Unreadable
  <2>2. faults' \in Nat
    BY <1>4 DEF RefreshLooksUp, Unreadable, Fault
  <2> QED
    BY <1>4, <2>1, <2>2 DEF RefreshLooksUp, RefreshUnchanged, LinkOK
<1>5. CASE RefreshLocks(a)
  <2>1. refresh' \in [Apps -> RefreshRow]
    BY <1>2, <1>3, <1>5 DEF RefreshLocks, Unreadable
  <2>3. faults' \in Nat
    BY <1>5 DEF RefreshLocks, Unreadable, Fault
  <2>2. LinkOK'
    <3>1. refresh[a].link # 0
      BY <1>5 DEF RefreshLocks, RequestInv, Using
    <3>2. \/ link' = link
          \/ /\ link.id = refresh[a].link
             /\ \E b \in BOOLEAN : link' = [link EXCEPT !.lock = b]
      BY <1>5 DEF RefreshLocks, LinkOK, LinkRow
    <3> QED
      BY <3>1, <3>2 DEF LinkOK, LinkRow
  <2> QED
    BY <1>5, <2>1, <2>2, <2>3 DEF RefreshLocks, RefreshUnchanged
<1>6. CASE TokenIsRotated(a)
  <2>1. tokens' \in Nat /\ accepted' \subseteq Nat
    BY <1>6 DEF TokenIsRotated
  <2>2. refresh' \in [Apps -> RefreshRow]
    <3>1. refresh' = [refresh EXCEPT ![a] = [@ EXCEPT !.at = "persist", !.token = tokens']]
      BY <1>6 DEF TokenIsRotated
    <3>2. [refresh[a] EXCEPT !.at = "persist", !.token = tokens'] \in RefreshRow
      BY <2>1 DEF RefreshRow
    <3> QED
      BY <3>1, <3>2
  <2> QED
    <3>1. UNCHANGED <<session, link, devices, callback, poll, unlinking, links, deviceIds,
                      expiries, faults, history>>
      BY <1>6 DEF TokenIsRotated
    <3> QED
      BY <2>1, <2>2, <3>1 DEF history, LinkOK
<1>7. CASE TokenIsRefused(a)
  BY <1>1, <1>7 DEF TokenIsRefused, RefreshGoes, RefreshUnchanged, LinkOK
<1>8. CASE RefreshPersists(a)
  <2>1. LinkOK'
    <3>1. refresh[a].link # 0 /\ refresh[a].token \in Nat \ {0}
      BY <1>8 DEF RefreshPersists, RequestInv, Using, RefreshRow
    <3>2. \/ link' = link
          \/ /\ link.id = refresh[a].link
             /\ link' = WithTokens(link.id, link.active, refresh[a].token, link.version + 1)
      BY <1>8 DEF RefreshPersists, UpdateLink
    <3> QED
      BY <3>1, <3>2, WithTokensOK, UnchangedOK DEF LinkOK, LinkRow
  <2> QED
    BY <1>1, <1>8, <2>1 DEF RefreshPersists, RefreshGoes, RefreshUnchanged
<1>9. CASE RefreshWipes(a)
  <2>1. LinkOK'
    <3>1. refresh[a].link # 0
      BY <1>9 DEF RefreshWipes, RequestInv, Using
    <3>2. \/ link' = link
          \/ /\ link.id = refresh[a].link
             /\ link' = [link EXCEPT !.active = FALSE, !.token = 0, !.lock = FALSE]
      BY <1>9 DEF RefreshWipes, UpdateLink
    <3> QED
      BY <3>1, <3>2 DEF LinkOK, LinkRow
  <2> QED
    BY <1>3, <1>9, <2>1 DEF RefreshWipes, RefreshUnchanged
<1>10. CASE RefreshVerifies(a)
  BY <1>3, <1>10 DEF RefreshVerifies, RefreshUnchanged, LinkOK
<1>11. CASE TokenCallFails(a)
  <2>1. LinkOK'
    <3>1. refresh[a].link # 0
      BY <1>11 DEF TokenCallFails, RequestInv, Using
    <3>2. \/ link' = link
          \/ link.id = refresh[a].link /\ link' = [link EXCEPT !.lock = FALSE]
      BY <1>11 DEF TokenCallFails, UpdateLink
    <3> QED
      BY <3>1, <3>2 DEF LinkOK, LinkRow
  <2>2. accepted' \subseteq Nat /\ faults' \in Nat
    BY <1>11 DEF TokenCallFails, Fault
  <2>3. ended' \subseteq Nat
    BY <1>11 DEF TokenCallFails
  <2>4. refresh' \in [Apps -> RefreshRow]
    BY <1>3, <1>11 DEF TokenCallFails
  <2> QED
    BY <1>11, <2>1, <2>2, <2>3, <2>4 DEF TokenCallFails, RefreshUnchanged
<1>12. CASE RefreshFails(a)
  <2>1. faults' \in Nat
    BY <1>12 DEF RefreshFails, Fault
  <2>2. ended' \subseteq Nat
    BY <1>12 DEF RefreshFails, LinkOK, LinkRow
  <2>3. refresh' \in [Apps -> RefreshRow]
    BY <1>3, <1>12 DEF RefreshFails
  <2> QED
    BY <1>12, <2>1, <2>2, <2>3 DEF RefreshFails, RefreshUnchanged, LinkOK
<1> QED
  BY <1>4, <1>5, <1>6, <1>7, <1>8, <1>9, <1>10, <1>11, <1>12 DEF RefreshServed

\* The maintenance, time and Patreon keep them.
TimeStep ==
    \/ \E s \in Sessions : MaintainSessions(s) \/ SessionAges(s)
    \/ \E d \in devices : MaintainDevices(d)
    \/ MaintainLinks \/ LockExpires \/ TokenNearsExpiry \/ UserRevokes

LEMMA TimeTypes ==
    ASSUME PatreonInv, UNCHANGED app,
           TimeStep
    PROVE  RowTypes'
<1>0. RowTypes
  BY TypeByRow DEF PatreonInv
<1> USE <1>0, Constants DEF RowTypes, rows, requests, ids, history
<1>1. ASSUME NEW s \in Sessions, MaintainSessions(s) PROVE RowTypes'
  BY <1>1 DEF MaintainSessions, LinkOK
<1>2. ASSUME NEW s \in Sessions, SessionAges(s) PROVE RowTypes'
  <2>1. PICK age \in AgesOf(session[s].status) : session' = [session EXCEPT ![s].age = age]
    BY <1>2 DEF SessionAges
  <2>2. age \in 0..4
    BY DEF AgesOf
  <2>3. session' \in [Sessions -> SessionRow]
    BY <2>1, <2>2 DEF SessionRow
  <2> QED
    BY <1>2, <2>3 DEF SessionAges, LinkOK
<1>3. ASSUME NEW d \in devices, MaintainDevices(d) PROVE RowTypes'
  BY <1>3 DEF MaintainDevices, LinkOK
<1>4. CASE MaintainLinks
  BY <1>4 DEF MaintainLinks, LinkOK
<1>5. CASE LockExpires
  <2>1. link.id # 0 /\ link' = [link EXCEPT !.lock = FALSE]
    BY <1>5 DEF LockExpires, LinkOK, NoLink
  <2>2. LinkOK'
    BY <2>1 DEF LinkOK, LinkRow
  <2> QED
    BY <1>5, <2>2 DEF LockExpires
<1>6. CASE TokenNearsExpiry
  <2>1. link.id # 0 /\ link' = [link EXCEPT !.expiring = TRUE]
    BY <1>6 DEF TokenNearsExpiry, LinkOK, NoLink
  <2>2. LinkOK'
    BY <2>1 DEF LinkOK, LinkRow
  <2>3. expiries' \in Nat
    BY <1>6 DEF TokenNearsExpiry
  <2> QED
    BY <1>6, <2>2, <2>3 DEF TokenNearsExpiry
<1>7. CASE UserRevokes
  <2>1. faults' \in Nat
    BY <1>7 DEF UserRevokes, Fault
  <2>2. ended' \subseteq Nat
    BY <1>7 DEF UserRevokes
  <2> QED
    BY <1>7, <2>1, <2>2 DEF UserRevokes, LinkOK
<1> QED
  BY <1>1, <1>2, <1>3, <1>4, <1>5, <1>6, <1>7 DEF TimeStep

\* Unlinks keep them.
LEMMA UnlinkTypes ==
    ASSUME PatreonInv, UNCHANGED app, NEW a \in Apps, UnlinkRemoves(a) \/ UnlinkFails(a)
    PROVE  RowTypes'
<1>0. RowTypes
  BY TypeByRow DEF PatreonInv
<1> USE <1>0, Constants DEF RowTypes, rows, ids, history
<1>1. CASE UnlinkRemoves(a)
  <2>1. link' = link \/ link' = NoLink
    BY <1>1 DEF UnlinkRemoves
  <2>2. LinkOK'
    BY <2>1 DEF LinkOK
  <2>3. devices' \subseteq devices /\ unlinking' \in [Apps -> Nat]
    BY <1>1 DEF UnlinkRemoves
  <2> QED
    BY <1>1, <2>2, <2>3 DEF UnlinkRemoves
<1>2. CASE UnlinkFails(a)
  <2>1. faults' \in Nat
    BY <1>2 DEF UnlinkFails, Fault
  <2>2. unlinking' \in [Apps -> Nat]
    BY <1>2 DEF UnlinkFails
  <2> QED
    BY <1>2, <2>1, <2>2 DEF UnlinkFails, LinkOK
<1> QED
  BY <1>1, <1>2

\* The desktop side keeps them.
LEMMA AppTypes ==
    ASSUME PatreonInv, NEW a \in Apps, AppStep(a)
    PROVE  RowTypes'
<1>0. RowTypes /\ RequestInv
  BY TypeByRow DEF PatreonInv
<1> USE <1>0, Constants DEF RowTypes, serviceVars, rows, requests, ids, history
<1>1. ASSUME FinishLink(a) PROVE app' \in [Apps -> AppRow]
  <2>1. 0 \in 0..MaxSessions
    BY ServiceBoundAssumption
  <2> QED
    BY <1>1, <2>1 DEF FinishLink, AppRow
<1>2. CASE StartLink(a)
  <2>1. PICK s \in Sessions :
          /\ StartSession(s)
          /\ app' = [app EXCEPT ![a].linking = "polling", ![a].session = s]
    BY <1>2 DEF StartLink, Unused
  <2>2. s \in 0..MaxSessions
    BY ServiceBoundAssumption DEF Sessions
  <2>3. app' \in [Apps -> AppRow]
    BY <2>1, <2>2 DEF AppRow
  <2>4. session' \in [Sessions -> SessionRow]
    BY <2>1 DEF StartSession, SessionRow
  <2> QED
    BY <1>2, <2>3, <2>4 DEF StartLink, LinkOK
<1>3. CASE PollCancelled(a)
  <2>1. session' \in [Sessions -> SessionRow]
    BY <1>3 DEF PollCancelled, CancelSession
  <2>2. app' \in [Apps -> AppRow]
    BY <1>1, <1>3 DEF PollCancelled
  <2> QED
    BY <1>3, <2>1, <2>2 DEF PollCancelled, LinkOK
<1>4. CASE PollTimesOut(a)
  BY <1>1, <1>4 DEF PollTimesOut, LinkOK
<1>5. CASE SendPoll(a)
  <2>1. PICK k \in Slots :
          /\ poll' = [poll EXCEPT ![app[a].session][k].at = "read"]
          /\ app' = [app EXCEPT ![a].linking = "waiting", ![a].slot = k]
    BY <1>5 DEF SendPoll
  <2>2. app' \in [Apps -> AppRow]
    BY <2>1 DEF AppRow
  <2>3. poll' \in [Sessions -> [Slots -> PollRow]]
    <3>1. \A r \in PollRow : [r EXCEPT !.at = "read"] \in PollRow
      BY DEF PollRow
    <3> QED
      BY <2>1, <3>1
  <2> QED
    BY <1>5, <2>2, <2>3 DEF SendPoll, LinkOK
<1>6. CASE ReceivePoll(a)
  <2>1. poll' \in [Sessions -> [Slots -> PollRow]]
    BY <1>6 DEF ReceivePoll
  <2>2. app' \in [Apps -> AppRow]
    <3>1. CASE poll[app[a].session][app[a].slot].says \in {"pending", "error"}
      <4>1. app' = [app EXCEPT ![a].linking = "polling", ![a].slot = 0]
        BY <1>6, <3>1 DEF ReceivePoll
      <4> QED
        BY <4>1 DEF AppRow
    <3>2. CASE poll[app[a].session][app[a].slot].says = "linked"
      <4> DEFINE d == poll[app[a].session][app[a].slot].device
      <4>1. app' = [app EXCEPT ![a] = [NoApp EXCEPT !.device = d, !.lease = d]]
        BY <1>6, <3>2 DEF ReceivePoll
      <4>2. d \in Nat
        BY <1>6 DEF ReceivePoll, RequestInv, PollRow
      <4>3. [NoApp EXCEPT !.device = d, !.lease = d] \in AppRow
        BY <4>2 DEF NoApp, AppRow
      <4> QED
        BY <4>1, <4>3
    <3>3. CASE poll[app[a].session][app[a].slot].says \notin {"pending", "error", "linked"}
      <4>1. FinishLink(a)
        BY <1>6, <3>3 DEF ReceivePoll
      <4> QED
        BY <1>1, <4>1
    <3> QED
      BY <3>1, <3>2, <3>3
  <2> QED
    BY <1>6, <2>1, <2>2 DEF ReceivePoll, LinkOK
<1>7. CASE LosePoll(a)
  <2>1. faults' \in Nat
    BY <1>7 DEF LosePoll, Fault
  <2>2. app' \in [Apps -> AppRow]
    BY <1>7 DEF LosePoll, AppRow
  <2> QED
    BY <1>7, <2>1, <2>2 DEF LosePoll, LinkOK
<1>8. CASE SendRefresh(a)
  <2>1. refresh' \in [Apps -> RefreshRow]
    <3>1. \A r \in RefreshRow, d \in Nat :
            [r EXCEPT !.at = "lookup", !.device = d] \in RefreshRow
      BY DEF RefreshRow
    <3>2. app[a].device \in Nat
      BY DEF AppRow
    <3>3. refresh' = [refresh EXCEPT ![a] =
                        [refresh[a] EXCEPT !.at = "lookup", !.device = app[a].device]]
      BY <1>8 DEF SendRefresh
    <3> QED
      BY <3>1, <3>2, <3>3
  <2> QED
    BY <1>8, <2>1 DEF SendRefresh, LinkOK
<1>9. CASE ReceiveRefresh(a)
  <2>1. refresh' \in [Apps -> RefreshRow]
    BY <1>9 DEF ReceiveRefresh
  <2>2. app' \in [Apps -> AppRow]
    <3>1. \A r \in AppRow, d \in Nat, b \in BOOLEAN :
            [r EXCEPT !.lease = d, !.reconnect = b] \in AppRow
      BY DEF AppRow
    <3>2. PICK d \in Nat, b \in BOOLEAN :
            app' = [app EXCEPT ![a] = [app[a] EXCEPT !.lease = d, !.reconnect = b]]
      <4> DEFINE d == CASE refresh[a].says = "lease" -> refresh[a].device
                        [] refresh[a].says = "refused" -> 0
                        [] OTHER -> app[a].lease
                 b == app[a].reconnect \/ refresh[a].says = "refused"
      <4>1. refresh[a].device \in Nat /\ app[a].lease \in Nat
        BY DEF RefreshRow, AppRow
      <4>2. d \in Nat
        BY <4>1
      <4>3. b \in BOOLEAN
        OBVIOUS
      <4>4. app' = [app EXCEPT ![a] = [app[a] EXCEPT !.lease = d, !.reconnect = b]]
        BY <1>9 DEF ReceiveRefresh
      <4> QED
        BY <4>2, <4>3, <4>4
    <3> QED
      BY <3>1, <3>2
  <2> QED
    BY <1>9, <2>1, <2>2 DEF ReceiveRefresh, LinkOK
<1>10. CASE LoseRefresh(a)
  <2>1. faults' \in Nat
    BY <1>10 DEF LoseRefresh, Fault
  <2>2. refresh' \in [Apps -> RefreshRow]
    BY <1>10 DEF LoseRefresh, RefreshRow
  <2> QED
    BY <1>10, <2>1, <2>2 DEF LoseRefresh, LinkOK
<1>11. CASE LeaseExpires(a)
  <2>1. expiries' \in Nat
    BY <1>11 DEF LeaseExpires
  <2>2. app' \in [Apps -> AppRow]
    BY <1>11 DEF LeaseExpires, AppRow
  <2> QED
    BY <1>11, <2>1, <2>2 DEF LeaseExpires, LinkOK
<1>12. CASE Unlink(a)
  <2>1. unlinking' \in [Apps -> Nat]
    BY <1>12 DEF Unlink, AppRow
  <2>2. app' \in [Apps -> AppRow]
    BY <1>12 DEF Unlink, AppRow
  <2> QED
    BY <1>12, <2>1, <2>2 DEF Unlink, LinkOK
<1> QED
  BY <1>2, <1>3, <1>4, <1>5, <1>6, <1>7, <1>8, <1>9, <1>10, <1>11, <1>12 DEF AppStep

LEMMA TypeStep ==
    ASSUME PatreonInv, [Next]_vars
    PROVE  TypeOK'
<1>1. ASSUME NEW s \in Sessions, NEW k \in Slots, DropPoll(s, k) PROVE RowTypes'
  <2>1. RowTypes
    BY TypeByRow DEF PatreonInv
  <2>2. poll' \in [Sessions -> [Slots -> PollRow]]
    BY <1>1, <2>1, Constants DEF RowTypes, DropPoll
  <2> QED
    BY <1>1, <2>1, <2>2 DEF DropPoll, RowTypes, rows, ids, history, LinkOK
<1>2. CASE UNCHANGED vars
  BY <1>2, TypeByRow DEF PatreonInv, RowTypes, LinkOK, vars, serviceVars, rows, requests, ids,
                         history
<1>3. CASE ServiceStep /\ UNCHANGED app
  <2>1. ASSUME NEW s \in Sessions, BrowserStep(s) PROVE RowTypes'
    BY <1>3, <2>1, BrowserTypes
  <2>2. ASSUME NEW s \in Sessions, NEW k \in Slots, PollServed(s, k) \/ PollFails(s, k)
        PROVE  RowTypes'
    BY <1>3, <2>2, PollTypes
  <2>3. ASSUME NEW a \in Apps, RefreshServed(a) \/ TokenCallFails(a) \/ RefreshFails(a)
        PROVE  RowTypes'
    BY <1>3, <2>3, RefreshTypes
  <2>4. ASSUME NEW a \in Apps, UnlinkRemoves(a) \/ UnlinkFails(a) PROVE RowTypes'
    BY <1>3, <2>4, UnlinkTypes
  <2>5. CASE TimeStep
    BY <1>3, <2>5, TimeTypes, TypeByRow
  <2> QED
    BY <1>3, <2>1, <2>2, <2>3, <2>4, <2>5, TypeByRow DEF ServiceStep, TimeStep
<1> QED
  BY <1>1, <1>2, <1>3, AppTypes, TypeByRow DEF Next

-----------------------------------------------------------------------------
(* What the steps do to the refreshes and to the row.                       *)

core == <<link, callback, refresh, accepted, tokens, links, ended>>

OthersKept(a) == \A b \in Apps \ {a} : refresh'[b] = refresh[b]

\* The refresh of a is over, or has not yet read anything.
Ends(a) ==
    /\ OthersKept(a) /\ refresh'[a].at \notin Using
    /\ refresh'[a].link = 0 /\ refresh'[a].token = 0 /\ refresh'[a].version = 0

\* It goes on with the row as it is.
Uses(a, step) ==
    /\ OthersKept(a) /\ refresh'[a].at = step
    /\ refresh'[a].link = link.id /\ refresh'[a].token = link.token
    /\ refresh'[a].version = link.version

\* It goes on with what it has.
Goes(a, step) ==
    /\ OthersKept(a) /\ refresh'[a].at = step
    /\ refresh'[a].link = refresh[a].link /\ refresh'[a].token = refresh[a].token
    /\ refresh'[a].version = refresh[a].version

\* Only the lock of the row changes.
LockBecomes(b) ==
    /\ link'.id = link.id /\ link'.active = link.active /\ link'.token = link.token
    /\ link'.version = link.version /\ link'.expiring = link.expiring /\ link'.lock = b

LEMMA AnswersEnd ==
    ASSUME RowTypes, NEW a \in Apps, NEW answer, RefreshAnswers(a, answer)
    PROVE  Ends(a)
  BY DEF RowTypes, RefreshAnswers, NoRefresh, Ends, OthersKept, Using

LEMMA UsesUse ==
    ASSUME RowTypes, NEW a \in Apps, NEW step, RefreshUses(a, step)
    PROVE  Uses(a, step)
  BY DEF RowTypes, RefreshUses, Uses, OthersKept

LEMMA GoesGo ==
    ASSUME RowTypes, NEW a \in Apps, NEW step, RefreshGoes(a, step)
    PROVE  Goes(a, step)
  BY DEF RowTypes, RefreshGoes, Goes, OthersKept, RefreshRow

LEMMA LockSet ==
    ASSUME LinkOK, NEW b \in BOOLEAN, link' = [link EXCEPT !.lock = b]
    PROVE  LockBecomes(b)
  BY DEF LinkOK, LinkRow, LockBecomes

LEMMA LooksUpEffect ==
    ASSUME RowTypes, NEW a \in Apps, RefreshLooksUp(a)
    PROVE  /\ UNCHANGED <<link, callback, accepted, tokens, links, ended>>
           /\ refresh[a].at = "lookup"
           /\ \/ Ends(a)
              \/ link.active /\ Uses(a, "lock")
              \/ link.active /\ ~link.expiring /\ (Uses(a, "identity") \/ Uses(a, "wipe"))
<1>1. UNCHANGED <<link, callback, accepted, tokens, links, ended>> /\ refresh[a].at = "lookup"
  BY DEF RefreshLooksUp, RefreshUnchanged, ids
<1>2. \/ RefreshAnswers(a, "refused") \/ RefreshAnswers(a, "lease")
      \/ link.active /\ RefreshUses(a, IF link.expiring THEN "lock" ELSE "identity")
      \/ link.active /\ ~link.expiring /\ RefreshUses(a, "wipe")
  BY DEF RefreshLooksUp, Unreadable
<1>3. \/ RefreshAnswers(a, "refused") \/ RefreshAnswers(a, "lease")
      \/ link.active /\ RefreshUses(a, "lock")
      \/ link.active /\ ~link.expiring
         /\ (RefreshUses(a, "identity") \/ RefreshUses(a, "wipe"))
  <2>1. CASE link.expiring
    BY <1>2, <2>1
  <2>2. CASE ~link.expiring
    BY <1>2, <2>2
  <2> QED
    BY <2>1, <2>2
<1> QED
  BY <1>1, <1>3, AnswersEnd, UsesUse

LEMMA LocksEffect ==
    ASSUME RowTypes, NEW a \in Apps, RefreshLocks(a)
    PROVE  /\ UNCHANGED <<callback, accepted, tokens, links, ended>>
           /\ refresh[a].at = "lock"
           /\ \/ Ends(a) /\ link' = link
              \/ /\ link.active /\ ~link.lock /\ link.expiring
                 /\ LockBecomes(TRUE) /\ (Uses(a, "token") \/ Uses(a, "wipe"))
              \/ /\ link.active /\ ~link.expiring
                 /\ LockBecomes(FALSE) /\ (Uses(a, "identity") \/ Uses(a, "wipe"))
<1>1. UNCHANGED <<callback, accepted, tokens, links, ended>> /\ refresh[a].at = "lock"
  BY DEF RefreshLocks, RefreshUnchanged, ids
<1>2. \/ RefreshAnswers(a, "later") /\ link' = link
      \/ /\ link.active /\ ~link.lock /\ link' = [link EXCEPT !.lock = link.expiring]
         /\ \/ RefreshUses(a, IF link.expiring THEN "token" ELSE "identity")
            \/ RefreshUses(a, "wipe")
  BY DEF RefreshLocks, LockFree, Unreadable
<1>3. \/ RefreshAnswers(a, "later") /\ link' = link
      \/ /\ link.active /\ ~link.lock /\ link.expiring
         /\ link' = [link EXCEPT !.lock = TRUE]
         /\ RefreshUses(a, "token") \/ RefreshUses(a, "wipe")
      \/ /\ link.active /\ ~link.expiring
         /\ link' = [link EXCEPT !.lock = FALSE]
         /\ RefreshUses(a, "identity") \/ RefreshUses(a, "wipe")
  <2>1. link.expiring \in BOOLEAN
    BY DEF RowTypes, LinkOK, LinkRow
  <2>2. CASE link.expiring = TRUE
    BY <1>2, <2>2
  <2>3. CASE link.expiring = FALSE
    BY <1>2, <2>3
  <2> QED
    BY <2>1, <2>2, <2>3
<1> QED
  BY <1>1, <1>3, AnswersEnd, UsesUse, LockSet DEF RowTypes

LEMMA RotatedEffect ==
    ASSUME RowTypes, NEW a \in Apps, TokenIsRotated(a)
    PROVE  /\ UNCHANGED <<link, callback, links, ended>>
           /\ refresh[a].at = "token" /\ refresh[a].token \in accepted
           /\ tokens' = tokens + 1
           /\ accepted' = (accepted \ {refresh[a].token}) \cup {tokens'}
           /\ OthersKept(a) /\ refresh'[a].at = "persist" /\ refresh'[a].token = tokens'
           /\ refresh'[a].link = refresh[a].link /\ refresh'[a].version = refresh[a].version
<1>1. UNCHANGED <<link, callback, links, ended>>
  BY DEF TokenIsRotated, rows, history
<1>2. /\ refresh[a].at = "token" /\ refresh[a].token \in accepted
      /\ tokens' = tokens + 1
      /\ accepted' = (accepted \ {refresh[a].token}) \cup {tokens'}
      /\ refresh' = [refresh EXCEPT ![a].at = "persist", ![a].token = tokens']
  BY DEF TokenIsRotated
<1>3. OthersKept(a)
  BY <1>2 DEF OthersKept, RowTypes
<1>4. /\ refresh'[a].at = "persist" /\ refresh'[a].token = tokens'
      /\ refresh'[a].link = refresh[a].link /\ refresh'[a].version = refresh[a].version
  BY <1>2 DEF RowTypes, RefreshRow
<1> QED
  BY <1>1, <1>2, <1>3, <1>4

LEMMA RefusedEffect ==
    ASSUME RowTypes, NEW a \in Apps, TokenIsRefused(a)
    PROVE  /\ UNCHANGED <<link, callback, accepted, tokens, links, ended>>
           /\ refresh[a].at \in {"token", "identity"} /\ refresh[a].token \notin accepted
           /\ Goes(a, "wipe")
  BY GoesGo DEF TokenIsRefused, RefreshUnchanged, ids

LEMMA PersistsEffect ==
    ASSUME RowTypes, NEW a \in Apps, RefreshPersists(a)
    PROVE  /\ UNCHANGED <<callback, accepted, tokens, links, ended>>
           /\ refresh[a].at = "persist" /\ Goes(a, "identity")
           /\ \/ ~Current(a) /\ link' = link
              \/ /\ Current(a)
                 /\ link'.id = link.id /\ link'.active = link.active /\ ~link'.expiring
                 /\ link'.token = refresh[a].token /\ link'.version = link.version + 1
<1>1. UNCHANGED <<callback, accepted, tokens, links, ended>> /\ refresh[a].at = "persist"
  BY DEF RefreshPersists, RefreshUnchanged, ids
<1>2. RefreshGoes(a, "identity")
  BY DEF RefreshPersists
<1>3. CASE Current(a)
  <2>1. link' = WithTokens(link.id, link.active, refresh[a].token, link.version + 1)
    BY <1>3 DEF RefreshPersists, UpdateLink, Current
  <2>2. /\ link.id \in Nat /\ link.active \in BOOLEAN /\ refresh[a].token \in Nat
        /\ link.version + 1 \in Nat
    BY DEF RowTypes, LinkOK, LinkRow, RefreshRow
  <2>3. /\ link'.id = link.id /\ link'.active = link.active /\ ~link'.expiring
        /\ link'.token = refresh[a].token /\ link'.version = link.version + 1
    BY <2>1, <2>2, WithTokensType
  <2> QED
    BY <1>1, <1>2, <1>3, <2>3, GoesGo
<1>4. CASE ~Current(a)
  <2>1. link' = link
    BY <1>4 DEF RefreshPersists, UpdateLink, Current
  <2> QED
    BY <1>1, <1>2, <1>4, <2>1, GoesGo
<1> QED
  BY <1>3, <1>4

LEMMA WipesEffect ==
    ASSUME RowTypes, NEW a \in Apps, RefreshWipes(a)
    PROVE  /\ UNCHANGED <<callback, accepted, tokens, links, ended>>
           /\ refresh[a].at = "wipe" /\ Ends(a)
           /\ \/ link' = link
              \/ /\ link'.id = link.id /\ ~link'.active /\ link'.token = 0
                 /\ link'.version = link.version
<1>1. UNCHANGED <<callback, accepted, tokens, links, ended>> /\ refresh[a].at = "wipe"
  BY DEF RefreshWipes, RefreshUnchanged, ids
<1>2. link' = link \/ link' = [link EXCEPT !.active = FALSE, !.token = 0, !.lock = FALSE]
  BY DEF RefreshWipes, UpdateLink
<1>3. \/ link' = link
      \/ /\ link'.id = link.id /\ ~link'.active /\ link'.token = 0
         /\ link'.version = link.version
  BY <1>2 DEF RowTypes, LinkOK, LinkRow
<1> QED
  BY <1>1, <1>3, AnswersEnd DEF RefreshWipes

LEMMA VerifiesEffect ==
    ASSUME RowTypes, NEW a \in Apps, RefreshVerifies(a)
    PROVE  /\ UNCHANGED <<link, callback, accepted, tokens, links, ended>>
           /\ refresh[a].at = "identity" /\ Ends(a)
  BY AnswersEnd DEF RefreshVerifies, RefreshUnchanged, ids

LEMMA TokenCallFailsEffect ==
    ASSUME RowTypes, NEW a \in Apps, TokenCallFails(a)
    PROVE  /\ UNCHANGED <<callback, tokens, links>>
           /\ refresh[a].at = "token" /\ Ends(a)
           /\ accepted' \subseteq accepted /\ Good \subseteq Good'
           /\ link' = link \/ LockBecomes(FALSE)
<1>1. UNCHANGED <<callback, tokens, links>> /\ refresh[a].at = "token"
  BY DEF TokenCallFails, RefreshUnchanged, ids
<1>2. accepted' \subseteq accepted /\ Good \subseteq Good'
  BY DEF TokenCallFails, Good
<1>3. link' = link \/ link' = [link EXCEPT !.lock = FALSE]
  BY DEF TokenCallFails, UpdateLink
<1> QED
  BY <1>1, <1>2, <1>3, AnswersEnd, LockSet DEF TokenCallFails, RowTypes

LEMMA FailsEffect ==
    ASSUME RowTypes, NEW a \in Apps, RefreshFails(a)
    PROVE  /\ UNCHANGED <<link, callback, accepted, tokens, links>>
           /\ Ends(a) /\ Good \subseteq Good'
           /\ refresh[a].at = "persist" /\ Current(a) => link.token \in Good'
<1>1. UNCHANGED <<link, callback, accepted, tokens, links>>
  BY DEF RefreshFails, RefreshUnchanged, ids
<1>2. /\ Good \subseteq Good'
      /\ refresh[a].at = "persist" /\ Current(a) => link.token \in Good'
  BY DEF RefreshFails, Good, RowAsRead, Current
<1> QED
  BY <1>1, <1>2, AnswersEnd DEF RefreshFails

LEMMA ClientEffect ==
    ASSUME RowTypes, RequestInv, NEW a \in Apps,
           SendRefresh(a) \/ ReceiveRefresh(a) \/ LoseRefresh(a)
    PROVE  UNCHANGED <<link, callback, accepted, tokens, links, ended>> /\ Ends(a)
<1>1. UNCHANGED <<link, callback, accepted, tokens, links, ended>>
  BY DEF SendRefresh, ReceiveRefresh, LoseRefresh, rows, ids, history
<1>2. /\ refresh[a].at \in {"none", "answered"}
      /\ refresh[a].link = 0 /\ refresh[a].token = 0 /\ refresh[a].version = 0
  BY DEF SendRefresh, ReceiveRefresh, LoseRefresh, RequestInv, Using
<1>3. OthersKept(a)
  BY DEF SendRefresh, ReceiveRefresh, LoseRefresh, OthersKept, RowTypes
<1>4. CASE SendRefresh(a)
  BY <1>1, <1>2, <1>3, <1>4 DEF SendRefresh, Ends, Using, RowTypes, RefreshRow
<1>5. CASE ReceiveRefresh(a)
  <2>1. refresh'[a] = NoRefresh
    BY <1>5 DEF ReceiveRefresh, RowTypes
  <2> QED
    BY <1>1, <1>3, <2>1 DEF Ends, Using, NoRefresh
<1>6. CASE LoseRefresh(a)
  BY <1>1, <1>2, <1>3, <1>6 DEF LoseRefresh, Ends, Using, RowTypes, RefreshRow
<1> QED
  BY <1>4, <1>5, <1>6

\* The callbacks.
OtherCallbacksKept(s) == \A t \in Sessions \ {s} : callback'[t] = callback[t]

LEMMA ConsumesEffect ==
    ASSUME RowTypes, NEW s \in Sessions, CallbackConsumes(s)
    PROVE  /\ UNCHANGED <<link, refresh, accepted, tokens, links, ended>>
           /\ OtherCallbacksKept(s) /\ callback'[s].at = "exchange"
           /\ callback'[s].token = callback[s].token /\ callback'[s].link = callback[s].link
<1>1. UNCHANGED <<link, refresh, accepted, tokens, links, ended>> /\ OtherCallbacksKept(s)
  BY DEF CallbackConsumes, ids, history, OtherCallbacksKept, RowTypes
<1> QED
  BY <1>1 DEF CallbackConsumes, RowTypes, CallbackRow

LEMMA ExchangesEffect ==
    ASSUME RowTypes, NEW s \in Sessions, CallbackExchanges(s)
    PROVE  /\ UNCHANGED <<link, refresh, links>> /\ tokens' = tokens + 1
           /\ OtherCallbacksKept(s)
           /\ callback'[s].at = "write" /\ callback'[s].token = tokens'
           /\ callback'[s].link = link.id
           /\ accepted' \subseteq accepted \cup {tokens'}
           /\ Good' = Good \cup {tokens'}
<1>1. UNCHANGED <<link, refresh, links>> /\ tokens' = tokens + 1
  BY DEF CallbackExchanges, rows
<1>2. callback' = [callback EXCEPT ![s] = [at |-> "write", token |-> tokens', link |-> link.id]]
  BY DEF CallbackExchanges
<1>3. PICK kept \in {accepted, {}} :
        accepted' = kept \cup {tokens'} /\ ended' = ended \cup (accepted \ kept)
  BY DEF CallbackExchanges
<1>4. accepted' \subseteq accepted \cup {tokens'} /\ Good' = Good \cup {tokens'}
  BY <1>3 DEF Good
<1> QED
  BY <1>1, <1>2, <1>4 DEF OtherCallbacksKept, RowTypes

\* The row of the account has the tokens of the callback.
Relinked(s) == link'.active /\ ~link'.expiring /\ link'.token = callback[s].token

LEMMA UpdatesEffect ==
    ASSUME RowTypes, NEW s \in Sessions, CallbackUpdates(s)
    PROVE  /\ UNCHANGED <<refresh, accepted, tokens, links, ended>>
           /\ callback[s].at = "write" /\ OtherCallbacksKept(s)
           /\ callback'[s].at = "finish" /\ callback'[s].token = callback[s].token
           /\ callback'[s].link = callback[s].link /\ callback[s].link # 0
           /\ \/ link' = link
              \/ /\ link.id # 0 /\ link'.id = link.id /\ link'.version = link.version + 1
                 /\ Relinked(s)
<1>1. /\ UNCHANGED <<refresh, accepted, tokens, links, ended>>
      /\ callback[s].at = "write" /\ callback[s].link # 0
  BY DEF CallbackUpdates, ids, history
<1>2. /\ OtherCallbacksKept(s)
      /\ callback'[s].at = "finish" /\ callback'[s].token = callback[s].token
      /\ callback'[s].link = callback[s].link
  BY DEF CallbackUpdates, OtherCallbacksKept, RowTypes, CallbackRow
<1>3. CASE link.id = callback[s].link
  <2>1. link' = WithTokens(link.id, TRUE, callback[s].token, link.version + 1)
    BY <1>3 DEF CallbackUpdates
  <2>2. link.id \in Nat /\ callback[s].token \in Nat /\ link.version + 1 \in Nat
    BY DEF RowTypes, LinkOK, LinkRow, CallbackRow
  <2>3. link'.id = link.id /\ link'.version = link.version + 1 /\ Relinked(s)
    BY <2>1 DEF Relinked, WithTokens
  <2> QED
    BY <1>1, <1>2, <1>3, <2>3
<1>4. CASE link.id # callback[s].link
  BY <1>1, <1>2, <1>4 DEF CallbackUpdates
<1> QED
  BY <1>3, <1>4

LEMMA InsertsEffect ==
    ASSUME RowTypes, NEW s \in Sessions, CallbackInserts(s)
    PROVE  /\ UNCHANGED <<refresh, accepted, tokens, ended>>
           /\ callback[s].at = "write" /\ OtherCallbacksKept(s)
           /\ callback'[s].token = callback[s].token
           /\ \/ /\ UNCHANGED <<link, links>> /\ callback'[s].at = "write"
                 /\ callback'[s].link = link.id
              \/ /\ link.id = 0 /\ links' = links + 1 /\ link'.id = links'
                 /\ callback'[s].at = "finish" /\ callback'[s].link = links' /\ Relinked(s)
<1>1. UNCHANGED <<refresh, accepted, tokens, ended>> /\ callback[s].at = "write"
  BY DEF CallbackInserts, ids, history
<1>2. CASE link.id = 0
  <2>1. /\ links' = links + 1 /\ link' = WithTokens(links', TRUE, callback[s].token, 1)
        /\ callback' = [callback EXCEPT ![s].at = "finish", ![s].link = links']
    BY <1>2 DEF CallbackInserts
  <2>2. links' \in Nat /\ callback[s].token \in Nat
    BY <2>1 DEF RowTypes, CallbackRow
  <2>3. link'.id = links' /\ Relinked(s)
    BY <2>1 DEF Relinked, WithTokens
  <2>4. /\ OtherCallbacksKept(s) /\ callback'[s].token = callback[s].token
        /\ callback'[s].at = "finish" /\ callback'[s].link = links'
    BY <2>1 DEF OtherCallbacksKept, RowTypes, CallbackRow
  <2> QED
    BY <1>1, <1>2, <2>1, <2>3, <2>4
<1>3. CASE link.id # 0
  <2>1. /\ UNCHANGED <<link, links>>
        /\ callback' = [callback EXCEPT ![s].link = link.id]
    BY <1>3 DEF CallbackInserts
  <2>2. /\ OtherCallbacksKept(s) /\ callback'[s].token = callback[s].token
        /\ callback'[s].at = "write" /\ callback'[s].link = link.id
    BY <1>1, <2>1 DEF OtherCallbacksKept, RowTypes, CallbackRow
  <2> QED
    BY <1>1, <2>1, <2>2
<1> QED
  BY <1>2, <1>3

LEMMA CallbackEnds ==
    ASSUME RowTypes, NEW s \in Sessions, CallbackFinishes(s) \/ CallbackFails(s)
    PROVE  /\ UNCHANGED <<link, refresh, accepted, tokens, links, ended>>
           /\ OtherCallbacksKept(s) /\ callback'[s] = NoCallback
  BY DEF CallbackFinishes, CallbackFails, ids, history, OtherCallbacksKept, RowTypes

RefreshStep(a) ==
    \/ RefreshServed(a) \/ TokenCallFails(a) \/ RefreshFails(a)
    \/ SendRefresh(a) \/ ReceiveRefresh(a) \/ LoseRefresh(a)

\* By an unlink, or by the maintenance.
RowDeleted == link' = NoLink /\ UNCHANGED <<callback, refresh, accepted, tokens, links, ended>>

\* The other steps leave the row, the callbacks, the refreshes and the tokens alone.
LEMMA CoreStep ==
    ASSUME [Next]_vars
    PROVE  \/ UNCHANGED core
           \/ \E a \in Apps : RefreshStep(a)
           \/ \E s \in Sessions : BrowserStep(s)
           \/ RowDeleted \/ LockExpires \/ TokenNearsExpiry \/ UserRevokes
<1> USE DEF rows, requests, ids, history
<1>1. ASSUME NEW a \in Apps, AppStep(a) PROVE UNCHANGED core \/ RefreshStep(a)
  <2>1. CASE \/ StartLink(a) \/ PollCancelled(a) \/ SendPoll(a)
             \/ ReceivePoll(a) \/ LosePoll(a) \/ LeaseExpires(a) \/ Unlink(a)
    BY <2>1 DEF StartLink, PollCancelled, SendPoll, ReceivePoll, LosePoll, LeaseExpires,
                Unlink, core
  <2>2. CASE PollTimesOut(a)
    BY <2>2 DEF PollTimesOut, core, serviceVars
  <2> QED
    BY <1>1, <2>1, <2>2 DEF AppStep, RefreshStep
<1>2. ASSUME NEW s \in Sessions, NEW k \in Slots,
             DropPoll(s, k) \/ PollServed(s, k) \/ PollFails(s, k)
      PROVE  UNCHANGED core
  BY <1>2 DEF DropPoll, PollServed, PollReads, PollDelivers, PollFails, core
<1>3. ASSUME NEW s \in Sessions, MaintainSessions(s) \/ SessionAges(s) PROVE UNCHANGED core
  BY <1>3 DEF MaintainSessions, SessionAges, core
<1>4. ASSUME NEW d \in devices, MaintainDevices(d) PROVE UNCHANGED core
  BY <1>4 DEF MaintainDevices, core
<1>5. ASSUME NEW a \in Apps, UnlinkRemoves(a) \/ UnlinkFails(a)
      PROVE  UNCHANGED core \/ RowDeleted
  <2>1. CASE UnlinkFails(a)
    BY <2>1 DEF UnlinkFails, core
  <2>2. CASE UnlinkRemoves(a) /\ link' = link
    BY <2>2 DEF UnlinkRemoves, core
  <2>3. CASE UnlinkRemoves(a) /\ link' # link
    BY <2>3 DEF UnlinkRemoves, RowDeleted
  <2> QED
    BY <1>5, <2>1, <2>2, <2>3
<1>6. CASE MaintainLinks
  BY <1>6 DEF MaintainLinks, RowDeleted
<1>7. CASE UNCHANGED vars
  BY <1>7 DEF vars, serviceVars, core
<1>8. CASE ServiceStep
  <2>1. CASE \E a \in Apps : UnlinkRemoves(a) \/ UnlinkFails(a)
    BY <1>5, <2>1
  <2>2. CASE \E s \in Sessions, k \in Slots : PollServed(s, k) \/ PollFails(s, k)
    BY <1>2, <2>2
  <2>3. CASE \E s \in Sessions : BrowserStep(s) \/ MaintainSessions(s) \/ SessionAges(s)
    BY <1>3, <2>3
  <2>4. CASE \E a \in Apps : RefreshServed(a) \/ TokenCallFails(a) \/ RefreshFails(a)
    BY <2>4 DEF RefreshStep
  <2> QED
    BY <1>4, <1>6, <1>8, <2>1, <2>2, <2>3, <2>4 DEF ServiceStep
<1> QED
  BY <1>1, <1>2, <1>7, <1>8 DEF Next

-----------------------------------------------------------------------------
(* One caller at a time.                                                    *)

NoCaller == \A a \in Apps : ~Calls(a)

\* A token that is presented is near its expiry already, and one that was just issued is
\* neither the row's nor none.
LEMMA NearsExpiryEffect ==
    ASSUME PatreonInv, TokenNearsExpiry
    PROVE  /\ NoCaller /\ UNCHANGED <<callback, refresh, accepted, tokens, links, ended>>
           /\ link'.id = link.id /\ link'.active = link.active /\ link'.token = link.token
           /\ link'.version = link.version /\ link'.lock = link.lock
<1>0. RowTypes /\ RequestInv /\ RefreshTokenInv
  BY TypeByRow DEF PatreonInv, TokenInv
<1>1. link.active /\ ~link.expiring /\ \A a \in Apps : refresh[a].token \in {0, link.token}
  BY DEF TokenNearsExpiry
<1>2. ASSUME NEW a \in Apps PROVE ~Calls(a)
  <2>1. Calls(a) => refresh[a].token # 0
    BY <1>0 DEF RequestInv, Calls, Using
  <2> QED
    BY <1>0, <1>1, <2>1 DEF RefreshTokenInv, Calls
<1> QED
  BY <1>0, <1>2 DEF TokenNearsExpiry, requests, ids, history, RowTypes, LinkOK, LinkRow, NoCaller

LEMMA LockStep ==
    ASSUME PatreonInv, [Next]_vars
    PROVE  LockInv'
<1>0. RowTypes /\ LockInv /\ RequestInv
  BY TypeByRow DEF PatreonInv
<1> DEFINE Free == link.active /\ link.expiring /\ ~link.lock
           Covered == \A a \in Apps : Calls(a)' => Calls(a)
<1>1. ASSUME Covered, link' = link \/ ~Free' PROVE LockInv'
  BY <1>0, <1>1 DEF LockInv
<1>2. ASSUME \A a \in Apps : ~Calls(a)' PROVE LockInv'
  BY <1>2 DEF LockInv
<1>3. ASSUME NEW a \in Apps, OthersKept(a), Calls(a) \/ ~Calls(a)' PROVE Covered
  BY <1>3 DEF OthersKept, Calls
<1>4. ASSUME NEW a \in Apps, OthersKept(a), Calls(a), ~Calls(a)' PROVE LockInv'
  <2>1. \A b \in Apps : ~Calls(b)'
    BY <1>0, <1>4 DEF OthersKept, Calls, LockInv
  <2> QED
    BY <1>2, <2>1
<1>5. ASSUME NEW a \in Apps, Ends(a) PROVE Covered
  BY <1>3, <1>5 DEF Ends, Calls, Using
<1>6. CASE UNCHANGED core
  BY <1>1, <1>6 DEF core, Calls
<1>7. ASSUME NEW a \in Apps, RefreshStep(a) PROVE LockInv'
  <2>1. CASE RefreshLooksUp(a)
    <3>1. link' = link /\ (Ends(a) \/ \E step \in {"lock", "identity", "wipe"} : Uses(a, step))
      BY <1>0, <2>1, LooksUpEffect
    <3>2. Covered
      BY <1>3, <1>5, <3>1 DEF Uses, Calls
    <3> QED
      BY <1>1, <3>1, <3>2
  <2>2. CASE RefreshLocks(a)
    <3>1. CASE Ends(a) /\ link' = link
      BY <1>1, <1>5, <3>1
    <3>2. CASE /\ link.active /\ ~link.lock /\ link.expiring
               /\ LockBecomes(TRUE) /\ Uses(a, "token")
      <4>1. \A b \in Apps : ~Calls(b)
        BY <1>0, <3>2 DEF LockInv
      <4>2. \A b \in Apps : Calls(b)' => b = a
        BY <3>2, <4>1 DEF Uses, OthersKept, Calls
      <4>3. ~Free'
        BY <3>2 DEF LockBecomes
      <4> QED
        BY <4>2, <4>3 DEF LockInv
    <3>3. CASE /\ link.active /\ ~link.lock /\ link.expiring
               /\ LockBecomes(TRUE) /\ Uses(a, "wipe")
      BY <1>1, <1>3, <3>3 DEF Uses, Calls, LockBecomes
    <3>4. CASE /\ link.active /\ ~link.expiring /\ LockBecomes(FALSE)
               /\ Uses(a, "identity") \/ Uses(a, "wipe")
      BY <1>1, <1>3, <3>4 DEF Uses, Calls, LockBecomes
    <3> QED
      BY <1>0, <2>2, <3>1, <3>2, <3>3, <3>4, LocksEffect
  <2>3. CASE TokenIsRotated(a)
    BY <1>0, <1>1, <1>3, <2>3, RotatedEffect DEF Calls
  <2>4. CASE TokenIsRefused(a)
    BY <1>0, <1>1, <1>3, <2>4, RefusedEffect DEF Goes, Calls
  <2>5. CASE RefreshPersists(a)
    BY <1>0, <1>4, <2>5, PersistsEffect DEF Goes, Calls
  <2>6. CASE RefreshWipes(a)
    BY <1>0, <1>1, <1>5, <2>6, WipesEffect
  <2>7. CASE RefreshVerifies(a)
    BY <1>0, <1>1, <1>5, <2>7, VerifiesEffect
  <2>8. CASE TokenCallFails(a)
    <3>1. refresh[a].at = "token" /\ Ends(a)
      BY <1>0, <2>8, TokenCallFailsEffect
    <3> QED
      BY <1>4, <3>1 DEF Ends, Calls, Using
  <2>9. CASE RefreshFails(a)
    BY <1>0, <1>1, <1>5, <2>9, FailsEffect
  <2>10. CASE SendRefresh(a) \/ ReceiveRefresh(a) \/ LoseRefresh(a)
    BY <1>0, <1>1, <1>5, <2>10, ClientEffect
  <2> QED
    BY <1>7, <2>1, <2>2, <2>3, <2>4, <2>5, <2>6, <2>7, <2>8, <2>9, <2>10
       DEF RefreshStep, RefreshServed
<1>8. ASSUME NEW s \in Sessions, BrowserStep(s) PROVE LockInv'
  <2>1. refresh' = refresh /\ (link' = link \/ ~link'.expiring)
    BY <1>0, <1>8, ConsumesEffect, ExchangesEffect, UpdatesEffect, InsertsEffect, CallbackEnds
       DEF BrowserStep, Relinked, CallbackDenied, requests
  <2> QED
    BY <1>1, <2>1 DEF Calls
<1>9. CASE RowDeleted
  BY <1>1, <1>9, Constants DEF RowDeleted, Calls
<1>10. CASE LockExpires
  BY <1>2, <1>10 DEF LockExpires, Calls, requests
<1>11. CASE TokenNearsExpiry
  BY <1>2, <1>11, NearsExpiryEffect DEF NoCaller, Calls
<1>12. CASE UserRevokes
  BY <1>1, <1>12 DEF UserRevokes, Calls, requests, rows
<1> QED
  BY <1>6, <1>7, <1>8, <1>9, <1>10, <1>11, <1>12, CoreStep

-----------------------------------------------------------------------------
(* Identifiers and versions.                                                *)

\* The row that follows: the same one, with another version unless its token is no
\* younger; a new one; none.
RowAges ==
    \/ /\ link'.id = link.id /\ link.version <= link'.version
       /\ link'.version = link.version => link'.token <= link.token
    \/ link'.id > links
    \/ link' = NoLink

LEMMA RowAgesKeep ==
    ASSUME PatreonInv, TypeOK', NEW a \in Apps, refresh'[a] = refresh[a],
           tokens <= tokens', links <= links', RowAges
    PROVE  RefreshAge(a)'
<1>0. RowTypes /\ RowTypes' /\ RequestInv /\ AgeInv
  BY TypeByRow DEF PatreonInv
<1>1. /\ tokens \in Nat /\ tokens' \in Nat /\ links \in Nat /\ links' \in Nat
      /\ link.id \in Nat /\ link'.id \in Nat /\ link.version \in Nat /\ link'.version \in Nat
      /\ link.token \in Nat /\ link'.token \in Nat
      /\ refresh[a].token \in Nat /\ refresh[a].link \in Nat /\ refresh[a].version \in Nat
  BY <1>0 DEF RowTypes, LinkOK, LinkRow, RefreshRow
<1>2. refresh[a].token <= tokens' /\ refresh[a].link <= links'
  BY <1>0, <1>1 DEF AgeInv, RefreshAge
<1>3. CASE /\ link'.id = link.id /\ link.version <= link'.version
           /\ link'.version = link.version => link'.token <= link.token
  BY <1>0, <1>1, <1>2, <1>3 DEF AgeInv, RefreshAge, Current
<1>4. CASE link'.id > links
  BY <1>0, <1>1, <1>2, <1>4 DEF AgeInv, RefreshAge, Current
<1>5. CASE link' = NoLink
  BY <1>0, <1>1, <1>2, <1>5, Constants DEF RequestInv, RefreshAge, Current, Using
<1> QED
  BY <1>3, <1>4, <1>5 DEF RowAges

LEMMA AgeStep ==
    ASSUME PatreonInv, TypeOK', [Next]_vars
    PROVE  AgeInv'
<1>0. RowTypes /\ RowTypes' /\ RequestInv /\ AgeInv
  BY TypeByRow DEF PatreonInv
<1>1. /\ tokens \in Nat /\ tokens' \in Nat /\ links \in Nat /\ links' \in Nat
      /\ link.id \in Nat /\ link'.id \in Nat /\ link.version \in Nat /\ link'.version \in Nat
      /\ link.token \in Nat /\ link'.token \in Nat
  BY <1>0 DEF RowTypes, LinkOK, LinkRow
<1>2. /\ \A a \in Apps : refresh[a].token \in Nat /\ refresh[a].link \in Nat
      /\ \A s \in Sessions : callback[s].token \in Nat /\ callback[s].link \in Nat
      /\ \A t \in accepted : t \in Nat
  BY <1>0 DEF RowTypes, RefreshRow, CallbackRow
<1> DEFINE RowAge == link.token <= tokens /\ link.id <= links
           CallbackAge == \A s \in Sessions : callback[s].token <= tokens /\ callback[s].link <= links
           AcceptedAge == \A t \in accepted : t <= tokens
<1> HIDE DEF RowAge, CallbackAge, AcceptedAge
<1>3. RowAge /\ CallbackAge /\ AcceptedAge
  BY <1>0 DEF AgeInv, RowAge, CallbackAge, AcceptedAge
<1>4. ASSUME RowAge', CallbackAge', AcceptedAge', \A a \in Apps : RefreshAge(a)' PROVE AgeInv'
  BY <1>4 DEF AgeInv, RowAge, CallbackAge, AcceptedAge
<1>5. ASSUME UNCHANGED <<callback, tokens, links>> PROVE CallbackAge'
  BY <1>3, <1>5 DEF CallbackAge
<1>6. ASSUME UNCHANGED tokens, accepted' \subseteq accepted PROVE AcceptedAge'
  BY <1>3, <1>6 DEF AcceptedAge
<1>7. ASSUME UNCHANGED <<link, tokens, links>> PROVE RowAge'
  BY <1>3, <1>7 DEF RowAge
<1>8. ASSUME UNCHANGED <<tokens, links>>, link'.id = link.id, link'.token <= link.token
      PROVE  RowAge'
  BY <1>1, <1>3, <1>8 DEF RowAge
<1>9. link' = link \/ (\E b \in BOOLEAN : LockBecomes(b)) => RowAges
  BY <1>1 DEF RowAges, LockBecomes
<1>10. ASSUME NEW a \in Apps, OthersKept(a), RefreshAge(a)', RowAges,
              tokens <= tokens', links <= links'
       PROVE  \A b \in Apps : RefreshAge(b)'
  BY <1>10, RowAgesKeep DEF OthersKept
<1>11. ASSUME refresh' = refresh, RowAges, tokens <= tokens', links <= links'
       PROVE  \A b \in Apps : RefreshAge(b)'
  BY <1>11, RowAgesKeep
<1>12. ASSUME NEW a \in Apps, Ends(a), UNCHANGED <<tokens, links>> PROVE RefreshAge(a)'
  BY <1>1, <1>12 DEF Ends, RefreshAge, Using
<1>13. ASSUME NEW a \in Apps, NEW step, Uses(a, step), step # "persist",
              link'.id = link.id, link'.version = link.version, UNCHANGED <<tokens, links>>
       PROVE  RefreshAge(a)'
  BY <1>1, <1>3, <1>13 DEF Uses, RefreshAge, RowAge
<1>14. ASSUME NEW a \in Apps, NEW step, Goes(a, step), step # "persist",
              link'.id = link.id, link.version <= link'.version, UNCHANGED <<tokens, links>>
       PROVE  RefreshAge(a)'
  <2>1. RefreshAge(a) /\ refresh[a].version \in Nat
    BY <1>0 DEF AgeInv, RowTypes, RefreshRow
  <2> QED
    BY <1>1, <1>14, <2>1 DEF Goes, RefreshAge
<1>15. CASE UNCHANGED core
  <2>1. RowAges /\ UNCHANGED <<link, callback, refresh, accepted, tokens, links>>
    BY <1>9, <1>15 DEF core
  <2> QED
    BY <1>1, <1>4, <1>5, <1>6, <1>7, <1>11, <2>1
<1>16. ASSUME NEW a \in Apps, RefreshStep(a) PROVE AgeInv'
  <2>1. CASE RefreshLooksUp(a)
    <3>1. /\ UNCHANGED <<link, callback, accepted, tokens, links>>
          /\ Ends(a) \/ \E step \in {"lock", "identity", "wipe"} : Uses(a, step)
      BY <1>0, <2>1, LooksUpEffect
    <3>2. OthersKept(a) /\ RefreshAge(a)'
      BY <1>12, <1>13, <3>1 DEF Ends, Uses
    <3> QED
      BY <1>1, <1>4, <1>5, <1>6, <1>7, <1>9, <1>10, <3>1, <3>2
  <2>2. CASE RefreshLocks(a)
    <3>1. /\ UNCHANGED <<callback, accepted, tokens, links>>
          /\ \/ Ends(a) /\ link' = link
             \/ /\ \E b \in BOOLEAN : LockBecomes(b)
                /\ \E step \in {"token", "identity", "wipe"} : Uses(a, step)
      BY <1>0, <2>2, LocksEffect
    <3>2. OthersKept(a) /\ RefreshAge(a)'
      BY <1>12, <1>13, <3>1 DEF Ends, Uses, LockBecomes
    <3>3. RowAges /\ RowAge'
      <4>1. CASE link' = link
        BY <1>7, <1>9, <3>1, <4>1
      <4>2. CASE \E b \in BOOLEAN : LockBecomes(b)
        BY <1>1, <1>8, <1>9, <3>1, <4>2 DEF LockBecomes
      <4> QED
        BY <3>1, <4>1, <4>2
    <3> QED
      BY <1>1, <1>4, <1>5, <1>6, <1>10, <3>1, <3>2, <3>3
  <2>3. CASE TokenIsRotated(a)
    <3>1. /\ UNCHANGED <<link, callback, links>> /\ OthersKept(a)
          /\ tokens' = tokens + 1
          /\ accepted' = (accepted \ {refresh[a].token}) \cup {tokens'}
          /\ refresh'[a].token = tokens'
          /\ refresh'[a].link = refresh[a].link /\ refresh'[a].version = refresh[a].version
      BY <1>0, <2>3, RotatedEffect
    <3>2. RowAge' /\ CallbackAge'
      BY <1>1, <1>2, <1>3, <3>1 DEF RowAge, CallbackAge
    <3>3. AcceptedAge'
      BY <1>1, <1>2, <1>3, <3>1 DEF AcceptedAge
    <3>4. RefreshAge(a)'
      <4>1. RefreshAge(a)
        BY <1>0 DEF AgeInv
      <4> QED
        BY <1>1, <1>2, <1>3, <3>1, <4>1 DEF RefreshAge, RowAge
    <3> QED
      BY <1>1, <1>4, <1>9, <1>10, <3>1, <3>2, <3>3, <3>4
  <2>4. CASE TokenIsRefused(a)
    <3>1. UNCHANGED <<link, callback, accepted, tokens, links>> /\ Goes(a, "wipe")
      BY <1>0, <2>4, RefusedEffect
    <3>2. OthersKept(a) /\ RefreshAge(a)'
      BY <1>1, <1>14, <3>1 DEF Goes
    <3> QED
      BY <1>1, <1>4, <1>5, <1>6, <1>7, <1>9, <1>10, <3>1, <3>2
  <2>5. CASE RefreshPersists(a)
    <3>1. /\ UNCHANGED <<callback, accepted, tokens, links>> /\ Goes(a, "identity")
          /\ \/ link' = link
             \/ /\ link'.id = link.id
                /\ link'.token = refresh[a].token /\ link'.version = link.version + 1
      BY <1>0, <2>5, PersistsEffect
    <3>2. OthersKept(a) /\ RefreshAge(a)' /\ RowAges
      BY <1>1, <1>14, <3>1 DEF Goes, RowAges
    <3>3. RowAge'
      <4>1. RefreshAge(a)
        BY <1>0 DEF AgeInv
      <4> QED
        BY <1>3, <1>7, <3>1, <4>1 DEF RowAge, RefreshAge
    <3> QED
      BY <1>1, <1>4, <1>5, <1>6, <1>10, <3>1, <3>2, <3>3
  <2>6. CASE RefreshWipes(a)
    <3>1. /\ UNCHANGED <<callback, accepted, tokens, links>> /\ Ends(a)
          /\ \/ link' = link
             \/ link'.id = link.id /\ link'.token = 0 /\ link'.version = link.version
      BY <1>0, <2>6, WipesEffect
    <3>2. RowAges /\ RowAge'
      BY <1>1, <1>7, <1>8, <3>1 DEF RowAges
    <3> QED
      BY <1>1, <1>4, <1>5, <1>6, <1>10, <1>12, <3>1, <3>2 DEF Ends
  <2>7. CASE \/ RefreshVerifies(a) \/ RefreshFails(a)
             \/ SendRefresh(a) \/ ReceiveRefresh(a) \/ LoseRefresh(a)
    <3>1. UNCHANGED <<link, callback, accepted, tokens, links>> /\ Ends(a)
      BY <1>0, <2>7, VerifiesEffect, FailsEffect, ClientEffect
    <3> QED
      BY <1>1, <1>4, <1>5, <1>6, <1>7, <1>9, <1>10, <1>12, <3>1 DEF Ends
  <2>8. CASE TokenCallFails(a)
    <3>1. /\ UNCHANGED <<callback, tokens, links>> /\ Ends(a) /\ accepted' \subseteq accepted
          /\ link' = link \/ LockBecomes(FALSE)
      BY <1>0, <2>8, TokenCallFailsEffect
    <3>2. RowAges /\ RowAge'
      <4>1. CASE link' = link
        BY <1>7, <1>9, <3>1, <4>1
      <4>2. CASE \E b \in BOOLEAN : LockBecomes(b)
        BY <1>1, <1>8, <1>9, <3>1, <4>2 DEF LockBecomes
      <4> QED
        BY <3>1, <4>1, <4>2
    <3> QED
      BY <1>1, <1>4, <1>5, <1>6, <1>10, <1>12, <3>1, <3>2 DEF Ends
  <2> QED
    BY <1>16, <2>1, <2>2, <2>3, <2>4, <2>5, <2>6, <2>7, <2>8 DEF RefreshStep, RefreshServed
<1>17. ASSUME NEW s \in Sessions, BrowserStep(s) PROVE AgeInv'
  <2>1. CASE CallbackDenied(s)
    BY <1>15, <2>1 DEF CallbackDenied, core, requests, ids, history
  <2>2. CASE CallbackConsumes(s) \/ CallbackFinishes(s) \/ CallbackFails(s)
    <3>1. UNCHANGED <<link, refresh, accepted, tokens, links>> /\ OtherCallbacksKept(s)
      BY <1>0, <2>2, ConsumesEffect, CallbackEnds
    <3>2. \/ callback'[s].token = callback[s].token /\ callback'[s].link = callback[s].link
          \/ callback'[s].token = 0 /\ callback'[s].link = 0
      BY <1>0, <2>2, ConsumesEffect, CallbackEnds DEF NoCallback
    <3>3. CallbackAge'
      BY <1>1, <1>3, <3>1, <3>2 DEF CallbackAge, OtherCallbacksKept
    <3> QED
      BY <1>1, <1>4, <1>6, <1>7, <1>9, <1>11, <3>1, <3>3
  <2>3. CASE CallbackExchanges(s)
    <3>1. /\ UNCHANGED <<link, refresh, links>> /\ tokens' = tokens + 1
          /\ OtherCallbacksKept(s)
          /\ callback'[s].token = tokens' /\ callback'[s].link = link.id
          /\ accepted' \subseteq accepted \cup {tokens'}
      BY <1>0, <2>3, ExchangesEffect
    <3>2. CallbackAge'
      BY <1>1, <1>2, <1>3, <3>1 DEF CallbackAge, OtherCallbacksKept, RowAge
    <3>3. AcceptedAge' /\ RowAge'
      BY <1>1, <1>2, <1>3, <3>1 DEF AcceptedAge, RowAge
    <3> QED
      BY <1>1, <1>4, <1>9, <1>11, <3>1, <3>2, <3>3
  <2>4. CASE CallbackUpdates(s)
    <3>1. /\ UNCHANGED <<refresh, accepted, tokens, links>> /\ OtherCallbacksKept(s)
          /\ callback'[s].token = callback[s].token /\ callback'[s].link = callback[s].link
          /\ \/ link' = link
             \/ /\ link'.id = link.id /\ link'.version = link.version + 1
                /\ link'.token = callback[s].token
      BY <1>0, <2>4, UpdatesEffect DEF Relinked
    <3>2. CallbackAge' /\ RowAge' /\ RowAges
      BY <1>1, <1>3, <3>1 DEF CallbackAge, OtherCallbacksKept, RowAge, RowAges
    <3> QED
      BY <1>1, <1>4, <1>6, <1>11, <3>1, <3>2
  <2>5. CASE CallbackInserts(s)
    <3>1. /\ UNCHANGED <<refresh, accepted, tokens>> /\ OtherCallbacksKept(s)
          /\ callback'[s].token = callback[s].token
          /\ \/ UNCHANGED <<link, links>> /\ callback'[s].link = link.id
             \/ /\ links' = links + 1 /\ link'.id = links' /\ callback'[s].link = links'
                /\ link'.token = callback[s].token
      BY <1>0, <2>5, InsertsEffect DEF Relinked
    <3>2. RowAge' /\ RowAges
      BY <1>1, <1>3, <3>1 DEF CallbackAge, RowAge, RowAges
    <3>3. CallbackAge'
      BY <1>1, <1>2, <1>3, <3>1 DEF CallbackAge, OtherCallbacksKept, RowAge
    <3> QED
      BY <1>1, <1>4, <1>6, <1>11, <3>1, <3>2, <3>3
  <2> QED
    BY <1>17, <2>1, <2>2, <2>3, <2>4, <2>5 DEF BrowserStep
<1>18. CASE RowDeleted
  <2>1. RowAges /\ RowAge' /\ UNCHANGED <<callback, refresh, accepted, tokens, links>>
    BY <1>1, <1>18, Constants DEF RowDeleted, RowAges, RowAge
  <2> QED
    BY <1>1, <1>4, <1>5, <1>6, <1>11, <2>1
<1>19. CASE LockExpires \/ TokenNearsExpiry \/ UserRevokes
  <2>1. /\ UNCHANGED <<callback, refresh, tokens, links>> /\ accepted' \subseteq accepted
        /\ link'.id = link.id /\ link'.token = link.token /\ link'.version = link.version
    BY <1>0, <1>19 DEF LockExpires, TokenNearsExpiry, UserRevokes, requests, rows, ids, RowTypes,
                       LinkOK, LinkRow
  <2>2. RowAges /\ RowAge'
    BY <1>1, <1>3, <2>1 DEF RowAges, RowAge
  <2> QED
    BY <1>1, <1>4, <1>5, <1>6, <1>11, <2>1, <2>2
<1> QED
  BY <1>15, <1>16, <1>17, <1>18, <1>19, CoreStep

-----------------------------------------------------------------------------
(* Tokens.                                                                  *)

SameToken ==
    /\ link'.id = link.id /\ link'.active = link.active /\ link'.token = link.token
    /\ link'.version = link.version /\ link'.expiring = link.expiring

\* Nobody starts to call.
NoNewCall == \A a \in Apps : refresh'[a] = refresh[a] \/ ~Calls(a)'

\* Nobody gets a token from a code.
NoNewCode ==
    \A s \in Sessions : \/ callback'[s].at # "write"
                        \/ callback[s].at = "write" /\ callback'[s].token = callback[s].token

LEMMA CallsKept ==
    ASSUME RefreshTokenInv, NoNewCall, Good \subseteq Good', SameToken,
           link'.lock = link.lock \/ ~link.expiring \/ NoCaller'
    PROVE  RefreshTokenInv'
  BY DEF RefreshTokenInv, NoNewCall, SameToken, NoCaller, Calls, Current

LEMMA CodesKept ==
    ASSUME CallbackTokenInv, NoNewCall, NoNewCode, Good \subseteq Good', link'.token = link.token
    PROVE  CallbackTokenInv'
  BY DEF CallbackTokenInv, NoNewCall, NoNewCode, Calls

\* The row's token is good when nobody holds its replacement.
LEMMA RowGood ==
    ASSUME LinkTokenInv, SameToken, Good \subseteq Good',
           \A a \in Apps : refresh[a].at = "persist" /\ Current(a) => link.token \in Good'
    PROVE  LinkTokenInv'
  BY DEF LinkTokenInv, SameToken

\* A refresh goes on without calling, or ends; if it held the replacement of the row's token,
\* that token is excepted from now on.
LEMMA QuietKeepsTokens ==
    ASSUME TokenInv, NEW a \in Apps, OthersKept(a), ~Calls(a)', UNCHANGED <<link, callback>>,
           Good \subseteq Good',
           refresh[a].at = "persist" /\ Current(a) => link.token \in Good'
    PROVE  TokenInv'
<1>1. NoNewCall /\ NoNewCode /\ SameToken
  BY DEF NoNewCall, NoNewCode, OthersKept, SameToken
<1>2. RefreshTokenInv' /\ CallbackTokenInv'
  BY <1>1, CallsKept, CodesKept DEF TokenInv
<1>3. LinkTokenInv'
  BY <1>1 DEF TokenInv, LinkTokenInv, OthersKept, Current
<1> QED
  BY <1>2, <1>3 DEF TokenInv

\* Another request that has read the row goes on, or it is answered.
LEMMA QuietSteps ==
    ASSUME NEW a \in Apps, Ends(a) \/ \E step \in {"lock", "identity", "wipe"} :
                                         Uses(a, step) \/ Goes(a, step)
    PROVE  OthersKept(a) /\ ~Calls(a)'
  BY DEF Ends, Uses, Goes, Calls, Using

\* The row is gone, or its tokens are cleared.
LEMMA ClearedTokens ==
    ASSUME TokenInv, RequestInv, ~link'.active, link'.token = 0, NoNewCall,
           UNCHANGED callback, Good' = Good
    PROVE  TokenInv'
<1>1. LinkTokenInv'
  BY DEF LinkTokenInv
<1>2. RefreshTokenInv'
  BY DEF TokenInv, RefreshTokenInv, RequestInv, NoNewCall, Calls, Using
<1>3. CallbackTokenInv'
  BY DEF TokenInv, CallbackTokenInv, RequestInv, NoNewCall, Calls
<1> QED
  BY <1>1, <1>2, <1>3 DEF TokenInv

LEMMA LocksTokens ==
    ASSUME PatreonInv, NEW a \in Apps, RefreshLooksUp(a) \/ RefreshLocks(a)
    PROVE  TokenInv'
<1>0. RowTypes /\ LockInv /\ TokenInv
  BY TypeByRow DEF PatreonInv
<1>1. CASE RefreshLooksUp(a)
  <2>1. /\ UNCHANGED <<link, callback, accepted, ended>> /\ refresh[a].at = "lookup"
        /\ Ends(a) \/ \E step \in {"lock", "identity", "wipe"} : Uses(a, step)
    BY <1>0, <1>1, LooksUpEffect
  <2> QED
    BY <1>0, <2>1, QuietSteps, QuietKeepsTokens DEF Good
<1>2. CASE RefreshLocks(a)
  <2>1. /\ UNCHANGED <<callback, accepted, ended>> /\ refresh[a].at = "lock"
        /\ \/ Ends(a) /\ link' = link
           \/ /\ link.active /\ ~link.lock /\ link.expiring
              /\ LockBecomes(TRUE) /\ (Uses(a, "token") \/ Uses(a, "wipe"))
           \/ /\ link.active /\ ~link.expiring
              /\ LockBecomes(FALSE) /\ (Uses(a, "identity") \/ Uses(a, "wipe"))
    BY <1>0, <1>2, LocksEffect
  <2>2. CASE Ends(a) /\ link' = link
    BY <1>0, <2>1, <2>2, QuietSteps, QuietKeepsTokens DEF Good
  <2>3. ASSUME link.active, ~(link.expiring /\ link.lock), SameToken,
               link'.lock = link.lock \/ ~link.expiring \/ NoCaller,
               \E step \in {"identity", "wipe"} : Uses(a, step)
        PROVE  TokenInv'
    <3>1. link.token \in Good /\ Good' = Good
      BY <1>0, <2>1, <2>3 DEF TokenInv, LinkTokenInv, Good
    <3>2. OthersKept(a) /\ ~Calls(a)'
      BY <2>3, QuietSteps
    <3>3. NoNewCall /\ NoNewCode /\ (NoCaller => NoCaller')
      BY <2>1, <3>2 DEF NoNewCall, NoNewCode, OthersKept, NoCaller, Calls
    <3>4. LinkTokenInv'
      BY <2>3, <3>1 DEF LinkTokenInv, SameToken
    <3>5. RefreshTokenInv' /\ CallbackTokenInv'
      BY <1>0, <2>3, <3>1, <3>3, CallsKept, CodesKept DEF TokenInv, SameToken
    <3> QED
      BY <3>4, <3>5 DEF TokenInv
  <2>4. CASE /\ link.active /\ ~link.expiring /\ LockBecomes(FALSE)
             /\ Uses(a, "identity") \/ Uses(a, "wipe")
    BY <2>3, <2>4 DEF SameToken, LockBecomes
  <2>5. CASE /\ link.active /\ ~link.lock /\ link.expiring /\ LockBecomes(TRUE)
             /\ Uses(a, "token") \/ Uses(a, "wipe")
    <3>1. NoCaller
      BY <1>0, <2>5 DEF LockInv, NoCaller
    <3>2. link.token \in Good /\ Good' = Good
      BY <1>0, <2>1, <2>5 DEF TokenInv, LinkTokenInv, Good
    <3>3. SameToken /\ link'.lock
      BY <2>5 DEF LockBecomes, SameToken
    <3>4. CASE Uses(a, "wipe")
      BY <2>3, <2>5, <3>1, <3>3, <3>4
    <3>5. CASE Uses(a, "token")
      <4>1. LinkTokenInv'
        BY <3>2, <3>3 DEF LinkTokenInv, SameToken
      <4>2. \A b \in Apps : Calls(b)' => b = a
        BY <3>1, <3>5 DEF NoCaller, Calls, Uses, OthersKept
      <4>3. /\ refresh'[a].at = "token" /\ refresh'[a].token = link.token
            /\ Current(a)' /\ link'.expiring
        BY <2>5, <3>3, <3>5 DEF Uses, SameToken, Current
      <4>4. RefreshTokenInv'
        BY <3>2, <3>3, <4>2, <4>3 DEF RefreshTokenInv, Calls
      <4>5. CallbackTokenInv'
        BY <1>0, <2>1, <3>2, <3>3, <4>2, <4>3 DEF TokenInv, CallbackTokenInv, SameToken
      <4> QED
        BY <4>1, <4>4, <4>5 DEF TokenInv
    <3> QED
      BY <2>5, <3>4, <3>5
  <2> QED
    BY <2>1, <2>2, <2>4, <2>5
<1> QED
  BY <1>1, <1>2

LEMMA RotatedTokens ==
    ASSUME PatreonInv, NEW a \in Apps, TokenIsRotated(a)
    PROVE  TokenInv'
<1>0. RowTypes /\ LockInv /\ AgeInv /\ TokenInv
  BY TypeByRow DEF PatreonInv
<1> USE DEF TokenInv
<1>1. /\ UNCHANGED <<link, callback>> /\ OthersKept(a)
      /\ refresh[a].at = "token" /\ tokens' = tokens + 1
      /\ refresh'[a].at = "persist" /\ refresh'[a].token = tokens'
      /\ refresh'[a].link = refresh[a].link /\ refresh'[a].version = refresh[a].version
  BY <1>0, RotatedEffect
<1>2. Good \ {refresh[a].token} \subseteq Good' /\ tokens' \in Good'
  BY <1>0, RotatedEffect DEF Good
<1>3. \A b \in Apps \ {a} : ~Calls(b) /\ ~Calls(b)'
  BY <1>0, <1>1 DEF LockInv, Calls, OthersKept
<1>4. /\ link.token # tokens'
      /\ \A s \in Sessions : callback[s].token # tokens'
  <2>1. /\ tokens \in Nat /\ link.token \in Nat
        /\ \A s \in Sessions : callback[s].token \in Nat
    BY <1>0 DEF RowTypes, LinkOK, LinkRow, CallbackRow
  <2> QED
    BY <1>0, <1>1, <2>1 DEF AgeInv
<1>5. LinkTokenInv'
  <2>1. CASE link.token = refresh[a].token /\ link.active
    <3>1. Current(a) /\ link.expiring /\ link.lock
      BY <1>0, <1>1, <2>1 DEF RefreshTokenInv
    <3> QED
      BY <1>1, <3>1 DEF LinkTokenInv, Current
  <2>2. CASE link.active /\ link.token # refresh[a].token
    <3>1. \A b \in Apps : refresh[b].at # "persist"
      BY <1>1, <1>3 DEF Calls
    <3>2. link.token \in Good
      BY <1>0, <2>2, <3>1 DEF LinkTokenInv
    <3> QED
      BY <1>1, <1>2, <2>2, <3>2 DEF LinkTokenInv
  <2>3. CASE ~link.active
    BY <1>1, <2>3 DEF LinkTokenInv
  <2> QED
    BY <2>1, <2>2, <2>3
<1>6. RefreshTokenInv'
  BY <1>1, <1>2, <1>3, <1>4 DEF RefreshTokenInv, Calls
<1>7. CallbackTokenInv'
  <2>1. \A s \in Sessions : callback[s].at = "write" => callback[s].token \in Good'
    BY <1>0, <1>1, <1>2 DEF CallbackTokenInv, Calls
  <2> QED
    BY <1>0, <1>1, <1>3, <1>4, <2>1 DEF CallbackTokenInv, Calls
<1> QED
  BY <1>5, <1>6, <1>7

LEMMA PersistsTokens ==
    ASSUME PatreonInv, NEW a \in Apps, RefreshPersists(a)
    PROVE  TokenInv'
<1>0. RowTypes /\ LockInv /\ TokenInv
  BY TypeByRow DEF PatreonInv
<1>1. /\ UNCHANGED <<callback, accepted, ended>> /\ refresh[a].at = "persist"
      /\ Goes(a, "identity")
      /\ \/ ~Current(a) /\ link' = link
         \/ link'.token = refresh[a].token
  BY <1>0, PersistsEffect
<1>2. OthersKept(a) /\ ~Calls(a)' /\ Good' = Good
  BY <1>1, QuietSteps DEF Good
<1>3. \A b \in Apps : ~Calls(b)'
  BY <1>0, <1>1, <1>2 DEF LockInv, Calls, OthersKept
<1>4. CASE ~Current(a) /\ link' = link
  BY <1>0, <1>1, <1>2, <1>4, QuietKeepsTokens
<1>5. CASE link'.token = refresh[a].token
  <2>1. refresh[a].token \in Good /\ Calls(a)
    BY <1>0, <1>1 DEF TokenInv, RefreshTokenInv, Calls
  <2>2. LinkTokenInv'
    BY <1>2, <1>5, <2>1 DEF LinkTokenInv
  <2>3. RefreshTokenInv'
    BY <1>3 DEF RefreshTokenInv, Calls
  <2>4. CallbackTokenInv'
    BY <1>0, <1>1, <1>2, <1>3, <1>5, <2>1 DEF TokenInv, CallbackTokenInv
  <2> QED
    BY <2>2, <2>3, <2>4 DEF TokenInv
<1> QED
  BY <1>1, <1>4, <1>5

LEMMA RefreshTokens ==
    ASSUME PatreonInv, NEW a \in Apps, RefreshStep(a)
    PROVE  TokenInv'
<1>0. RowTypes /\ LockInv /\ RequestInv /\ TokenInv
  BY TypeByRow DEF PatreonInv
<1>1. CASE TokenIsRefused(a)
  <2>1. /\ UNCHANGED <<link, callback, accepted, ended>> /\ Goes(a, "wipe")
        /\ refresh[a].at # "persist"
    BY <1>0, <1>1, RefusedEffect
  <2> QED
    BY <1>0, <2>1, QuietSteps, QuietKeepsTokens DEF Good
<1>2. CASE RefreshWipes(a)
  <2>1. /\ UNCHANGED <<callback, accepted, ended>> /\ refresh[a].at = "wipe" /\ Ends(a)
        /\ link' = link \/ (~link'.active /\ link'.token = 0)
    BY <1>0, <1>2, WipesEffect
  <2>2. OthersKept(a) /\ ~Calls(a)' /\ Good' = Good
    BY <2>1, QuietSteps DEF Good
  <2>3. CASE link' = link
    BY <1>0, <2>1, <2>2, <2>3, QuietKeepsTokens
  <2>4. CASE ~link'.active /\ link'.token = 0
    BY <1>0, <2>1, <2>2, <2>4, ClearedTokens DEF OthersKept, NoNewCall
  <2> QED
    BY <2>1, <2>3, <2>4
<1>3. CASE RefreshVerifies(a)
  <2>1. /\ UNCHANGED <<link, callback, accepted, ended>> /\ Ends(a)
        /\ refresh[a].at # "persist"
    BY <1>0, <1>3, VerifiesEffect
  <2> QED
    BY <1>0, <2>1, QuietSteps, QuietKeepsTokens DEF Good
<1>4. CASE RefreshFails(a)
  BY <1>0, <1>4, FailsEffect, QuietSteps, QuietKeepsTokens
<1>5. CASE SendRefresh(a) \/ ReceiveRefresh(a) \/ LoseRefresh(a)
  <2>1. refresh[a].at # "persist"
    BY <1>5 DEF SendRefresh, ReceiveRefresh, LoseRefresh
  <2>2. UNCHANGED <<link, callback, accepted, ended>> /\ Ends(a)
    BY <1>0, <1>5, ClientEffect
  <2> QED
    BY <1>0, <2>1, <2>2, QuietSteps, QuietKeepsTokens DEF Good
<1>6. CASE TokenCallFails(a)
  <2>1. /\ UNCHANGED callback /\ refresh[a].at = "token" /\ Ends(a) /\ Good \subseteq Good'
        /\ link' = link \/ LockBecomes(FALSE)
    BY <1>0, <1>6, TokenCallFailsEffect
  <2>2. \A b \in Apps \ {a} : ~Calls(b)
    BY <1>0, <2>1 DEF LockInv, Calls
  <2>3. OthersKept(a) /\ ~Calls(a)'
    BY <2>1, QuietSteps
  <2>4. SameToken /\ NoCaller' /\ NoNewCall /\ NoNewCode
    BY <2>1, <2>2, <2>3
       DEF SameToken, LockBecomes, NoCaller, Calls, OthersKept, NoNewCall, NoNewCode
  <2>5. LinkTokenInv'
    BY <1>0, <2>1, <2>2, <2>4, RowGood DEF Calls, TokenInv
  <2> QED
    BY <1>0, <2>1, <2>4, <2>5, CallsKept, CodesKept DEF SameToken, TokenInv
<1> QED
  BY <1>1, <1>2, <1>3, <1>4, <1>5, <1>6, LocksTokens, RotatedTokens, PersistsTokens
     DEF RefreshStep, RefreshServed

\* A callback that has stored its tokens has the row's.
LEMMA RelinkTokens ==
    ASSUME TokenInv, NEW s \in Sessions, callback[s].at = "write", Relinked(s),
           OtherCallbacksKept(s), callback'[s].at # "write",
           UNCHANGED <<refresh, accepted, ended>>
    PROVE  TokenInv'
<1> USE DEF TokenInv, Relinked
<1>0. Good' = Good
  BY DEF Good
<1>1. callback[s].token \in Good
  BY DEF CallbackTokenInv
<1>2. \A a \in Apps : Calls(a) => refresh[a].token # callback[s].token
  BY DEF CallbackTokenInv
<1>3. LinkTokenInv'
  BY <1>0, <1>1 DEF LinkTokenInv
<1>4. RefreshTokenInv'
  BY <1>0, <1>2 DEF RefreshTokenInv, Calls
<1>5. CallbackTokenInv'
  BY <1>0, <1>2 DEF CallbackTokenInv, OtherCallbacksKept, Calls
<1> QED
  BY <1>3, <1>4, <1>5

LEMMA BrowserTokens ==
    ASSUME PatreonInv, NEW s \in Sessions, BrowserStep(s)
    PROVE  TokenInv'
<1>0. RowTypes /\ AgeInv /\ TokenInv
  BY TypeByRow DEF PatreonInv
<1>1. ASSUME UNCHANGED <<link, refresh>>, Good \subseteq Good', NoNewCode PROVE TokenInv'
  <2>1. SameToken /\ NoNewCall
    BY <1>1 DEF SameToken, NoNewCall
  <2>2. LinkTokenInv'
    BY <1>0, <1>1 DEF TokenInv, LinkTokenInv, Current
  <2> QED
    BY <1>0, <1>1, <2>1, <2>2, CallsKept, CodesKept DEF TokenInv
<1>2. CASE CallbackDenied(s)
  BY <1>1, <1>2 DEF CallbackDenied, requests, history, NoNewCode, Good
<1>3. CASE CallbackConsumes(s) \/ CallbackFinishes(s) \/ CallbackFails(s)
  <2>1. /\ UNCHANGED <<link, refresh, accepted, ended>> /\ OtherCallbacksKept(s)
        /\ callback'[s].at # "write"
    BY <1>0, <1>3, ConsumesEffect, CallbackEnds DEF NoCallback
  <2> QED
    BY <1>1, <2>1 DEF NoNewCode, OtherCallbacksKept, Good
<1>4. CASE CallbackExchanges(s)
  <2>1. /\ UNCHANGED <<link, refresh>> /\ tokens' = tokens + 1
        /\ OtherCallbacksKept(s) /\ callback'[s].token = tokens'
        /\ Good' = Good \cup {tokens'}
    BY <1>0, <1>4, ExchangesEffect
  <2>2. /\ link.token # tokens'
        /\ \A t \in Sessions : callback[t].token # tokens'
        /\ \A a \in Apps : refresh[a].token # tokens'
    <3>1. /\ tokens \in Nat /\ link.token \in Nat
          /\ \A t \in Sessions : callback[t].token \in Nat
          /\ \A a \in Apps : refresh[a].token \in Nat
      BY <1>0 DEF RowTypes, LinkOK, LinkRow, CallbackRow, RefreshRow
    <3> QED
      BY <1>0, <2>1, <3>1 DEF AgeInv, RefreshAge
  <2>3. SameToken /\ NoNewCall
    BY <2>1 DEF SameToken, NoNewCall
  <2>4. LinkTokenInv'
    BY <1>0, <2>1 DEF TokenInv, LinkTokenInv, Current
  <2>5. RefreshTokenInv'
    BY <1>0, <2>1, <2>3, CallsKept DEF TokenInv
  <2>6. CallbackTokenInv'
    BY <1>0, <2>1, <2>2 DEF TokenInv, CallbackTokenInv, OtherCallbacksKept, Calls
  <2> QED
    BY <2>4, <2>5, <2>6 DEF TokenInv
<1>5. CASE CallbackUpdates(s)
  <2>1. /\ UNCHANGED <<refresh, accepted, ended>> /\ callback[s].at = "write"
        /\ OtherCallbacksKept(s) /\ callback'[s].at # "write"
        /\ link' = link \/ Relinked(s)
    BY <1>0, <1>5, UpdatesEffect
  <2>2. CASE link' = link
    BY <1>1, <2>1, <2>2 DEF NoNewCode, OtherCallbacksKept, Good
  <2>3. CASE Relinked(s)
    BY <1>0, <2>1, <2>3, RelinkTokens
  <2> QED
    BY <2>1, <2>2, <2>3
<1>6. CASE CallbackInserts(s)
  <2>1. /\ UNCHANGED <<refresh, accepted, ended>> /\ callback[s].at = "write"
        /\ OtherCallbacksKept(s) /\ callback'[s].token = callback[s].token
        /\ \/ UNCHANGED <<link, links>>
           \/ callback'[s].at = "finish" /\ Relinked(s)
    BY <1>0, <1>6, InsertsEffect
  <2>2. CASE link' = link
    BY <1>1, <2>1, <2>2 DEF NoNewCode, OtherCallbacksKept, Good
  <2>3. CASE callback'[s].at = "finish" /\ Relinked(s)
    BY <1>0, <2>1, <2>3, RelinkTokens
  <2> QED
    BY <2>1, <2>2, <2>3
<1> QED
  BY <1>2, <1>3, <1>4, <1>5, <1>6 DEF BrowserStep

LEMMA TokenStep ==
    ASSUME PatreonInv, [Next]_vars
    PROVE  TokenInv'
<1>0. RowTypes /\ RequestInv /\ TokenInv
  BY TypeByRow DEF PatreonInv
<1>1. CASE UNCHANGED core
  <2>1. UNCHANGED <<link, callback, refresh>> /\ Good' = Good
    BY <1>1 DEF core, Good
  <2> QED
    BY <1>0, <2>1 DEF TokenInv, LinkTokenInv, RefreshTokenInv, CallbackTokenInv, Calls, Current
<1>2. ASSUME NEW a \in Apps, RefreshStep(a) PROVE TokenInv'
  BY <1>2, RefreshTokens
<1>3. ASSUME NEW s \in Sessions, BrowserStep(s) PROVE TokenInv'
  BY <1>3, BrowserTokens
<1>4. CASE RowDeleted
  <2>1. /\ UNCHANGED <<callback, refresh>> /\ Good' = Good /\ NoNewCall
        /\ ~link'.active /\ link'.token = 0
    BY <1>4, Constants DEF RowDeleted, Good, NoNewCall
  <2> QED
    BY <1>0, <2>1, ClearedTokens
<1>5. CASE LockExpires
  <2>1. /\ UNCHANGED <<callback, refresh, accepted, ended>> /\ NoCaller
        /\ link' = [link EXCEPT !.lock = FALSE]
    BY <1>5 DEF LockExpires, requests, history, NoCaller, Calls
  <2>2. SameToken /\ NoCaller' /\ NoNewCall /\ NoNewCode /\ Good' = Good
    BY <1>0, <2>1, LockSet
       DEF RowTypes, LockBecomes, SameToken, NoCaller, Calls, NoNewCall, NoNewCode, Good
  <2>3. LinkTokenInv'
    BY <1>0, <2>1, <2>2, RowGood DEF TokenInv, NoCaller, Calls
  <2> QED
    BY <1>0, <2>1, <2>2, <2>3, CallsKept, CodesKept DEF TokenInv, SameToken
<1>6. CASE TokenNearsExpiry
  <2>1. /\ NoCaller /\ UNCHANGED <<callback, refresh, accepted, ended>>
        /\ link'.active = link.active /\ link'.token = link.token
    BY <1>6, NearsExpiryEffect
  <2>2. NoNewCall /\ NoNewCode /\ NoCaller' /\ Good' = Good
    BY <2>1 DEF NoNewCall, NoNewCode, NoCaller, Calls, Good
  <2>3. LinkTokenInv'
    BY <1>0, <2>1, <2>2 DEF TokenInv, LinkTokenInv, NoCaller, Calls
  <2>4. RefreshTokenInv'
    BY <2>2 DEF RefreshTokenInv, NoCaller, Calls
  <2> QED
    BY <1>0, <2>1, <2>2, <2>3, <2>4, CodesKept DEF TokenInv
<1>7. CASE UserRevokes
  <2>1. /\ UNCHANGED <<link, callback, refresh>> /\ Good' = Good
    BY <1>7 DEF UserRevokes, rows, requests, Good
  <2> QED
    BY <1>0, <2>1 DEF TokenInv, LinkTokenInv, RefreshTokenInv, CallbackTokenInv, Calls, Current
<1> QED
  BY <1>1, <1>2, <1>3, <1>4, <1>5, <1>6, <1>7, CoreStep

-----------------------------------------------------------------------------
(* Requests, devices and deliveries.                                        *)

RefreshHolds(a) ==
    IF refresh[a].at \in Using
    THEN refresh[a].link # 0 /\ refresh[a].token # 0
    ELSE refresh[a].link = 0 /\ refresh[a].token = 0 /\ refresh[a].version = 0

LEMMA RefreshHoldStep ==
    ASSUME PatreonInv, NEW a \in Apps, RefreshStep(a)
    PROVE  \A b \in Apps : RefreshHolds(b)'
<1>0. RowTypes /\ RequestInv /\ \A b \in Apps : RefreshHolds(b)
  BY TypeByRow DEF PatreonInv, RequestInv, RefreshHolds
<1>1. ASSUME OthersKept(a), RefreshHolds(a)' PROVE \A b \in Apps : RefreshHolds(b)'
  BY <1>0, <1>1 DEF OthersKept, RefreshHolds
<1>2. ASSUME Ends(a) PROVE \A b \in Apps : RefreshHolds(b)'
  BY <1>1, <1>2 DEF Ends, RefreshHolds
<1>3. ASSUME NEW step \in Using, Uses(a, step), link.active PROVE \A b \in Apps : RefreshHolds(b)'
  <2>1. link.id # 0 /\ link.token # 0
    BY <1>0, <1>3 DEF RowTypes, LinkOK, NoLink
  <2> QED
    BY <1>1, <1>3, <2>1 DEF Uses, RefreshHolds
<1>4. ASSUME NEW step \in Using, Goes(a, step), refresh[a].at \in Using
      PROVE  \A b \in Apps : RefreshHolds(b)'
  <2>1. RefreshHolds(a)
    BY <1>0
  <2> QED
    BY <1>1, <1>4, <2>1 DEF Goes, RefreshHolds
<1>5. {"lock", "token", "persist", "wipe", "identity"} = Using
  BY DEF Using
<1>6. CASE RefreshLooksUp(a) \/ RefreshLocks(a)
  BY <1>0, <1>2, <1>3, <1>5, <1>6, LooksUpEffect, LocksEffect
<1>7. CASE TokenIsRotated(a)
  <2>1. /\ OthersKept(a) /\ refresh[a].at = "token" /\ refresh'[a].at = "persist"
        /\ refresh'[a].link = refresh[a].link /\ refresh'[a].token = tokens + 1
    BY <1>0, <1>7, RotatedEffect
  <2>2. tokens + 1 # 0
    BY <1>0 DEF RowTypes
  <2>3. RefreshHolds(a)
    BY <1>0
  <2>4. RefreshHolds(a)'
    BY <2>1, <2>2, <2>3 DEF RefreshHolds, Using
  <2> QED
    BY <1>1, <2>1, <2>4
<1>8. CASE TokenIsRefused(a) \/ RefreshPersists(a)
  BY <1>0, <1>4, <1>5, <1>8, RefusedEffect, PersistsEffect
<1>9. CASE RefreshWipes(a) \/ RefreshVerifies(a) \/ TokenCallFails(a) \/ RefreshFails(a)
  BY <1>0, <1>2, <1>9, WipesEffect, VerifiesEffect, TokenCallFailsEffect, FailsEffect
<1>10. CASE SendRefresh(a) \/ ReceiveRefresh(a) \/ LoseRefresh(a)
  BY <1>0, <1>2, <1>10, ClientEffect
<1> QED
  BY <1>6, <1>7, <1>8, <1>9, <1>10 DEF RefreshStep, RefreshServed

CallbackHolds(s) ==
    /\ callback[s].at = "finish" => callback[s].link # 0
    /\ callback[s].at = "write" => callback[s].token # 0

LEMMA CallbackHoldStep ==
    ASSUME PatreonInv, NEW s \in Sessions, BrowserStep(s)
    PROVE  \A t \in Sessions : CallbackHolds(t)'
<1>0. RowTypes /\ \A t \in Sessions : CallbackHolds(t)
  BY TypeByRow DEF PatreonInv, RequestInv, CallbackHolds
<1>1. ASSUME OtherCallbacksKept(s), CallbackHolds(s)' PROVE \A t \in Sessions : CallbackHolds(t)'
  BY <1>0, <1>1 DEF OtherCallbacksKept, CallbackHolds
<1>2. CASE CallbackDenied(s)
  BY <1>0, <1>2 DEF CallbackDenied, requests, CallbackHolds
<1>3. CASE CallbackConsumes(s) \/ CallbackFinishes(s) \/ CallbackFails(s)
  <2>1. OtherCallbacksKept(s) /\ callback'[s].at \in {"none", "exchange"}
    BY <1>0, <1>3, ConsumesEffect, CallbackEnds DEF NoCallback
  <2> QED
    BY <1>1, <2>1 DEF CallbackHolds
<1>4. CASE CallbackExchanges(s)
  <2>1. OtherCallbacksKept(s) /\ callback'[s].at = "write" /\ callback'[s].token = tokens + 1
    BY <1>0, <1>4, ExchangesEffect
  <2>2. tokens + 1 # 0
    BY <1>0 DEF RowTypes
  <2> QED
    BY <1>1, <2>1, <2>2 DEF CallbackHolds
<1>5. CASE CallbackUpdates(s)
  BY <1>0, <1>1, <1>5, UpdatesEffect DEF CallbackHolds
<1>6. CASE CallbackInserts(s)
  <2>1. /\ OtherCallbacksKept(s) /\ callback[s].at = "write"
        /\ callback'[s].token = callback[s].token
        /\ \/ callback'[s].at = "write"
           \/ callback'[s].at = "finish" /\ callback'[s].link = links + 1
    BY <1>0, <1>6, InsertsEffect
  <2>2. links + 1 # 0 /\ CallbackHolds(s)
    BY <1>0 DEF RowTypes
  <2> QED
    BY <1>1, <2>1, <2>2 DEF CallbackHolds
<1> QED
  BY <1>2, <1>3, <1>4, <1>5, <1>6 DEF BrowserStep

\* What a step may do to a session, and to its deliveries.
SessionMoves(s) ==
    \/ /\ delivered'[s] = delivered[s]
       /\ \/ session'[s].status = session[s].status /\ session'[s].link = session[s].link
          \/ session'[s].status = "over"
          \/ session[s].status = "none" /\ session'[s].status = "pending"
          \/ session[s].status = "pending" /\ session'[s].status = "exchanging"
          \/ /\ session[s].status = "exchanging" /\ session'[s].status = "linked"
             /\ session'[s].link # 0
    \/ /\ session[s].status = "linked" /\ session'[s].status = "consumed"
       /\ delivered'[s] = delivered[s] + 1

LEMMA SessionStep ==
    ASSUME PatreonInv, [Next]_vars, NEW t \in Sessions
    PROVE  SessionMoves(t)
<1>0. RowTypes /\ RequestInv
  BY TypeByRow DEF PatreonInv
<1> USE DEF rows, requests, history
<1>1. ASSUME UNCHANGED <<session, delivered>> PROVE SessionMoves(t)
  BY <1>1 DEF SessionMoves
<1>2. ASSUME UNCHANGED delivered, NEW s \in Sessions, session' = [session EXCEPT ![s] = Over]
      PROVE  SessionMoves(t)
  BY <1>0, <1>2 DEF SessionMoves, Over, RowTypes
<1>3. ASSUME NEW a \in Apps, AppStep(a) PROVE SessionMoves(t)
  <2>1. CASE StartLink(a)
    <3>1. PICK s \in Unused : StartSession(s)
      BY <2>1 DEF StartLink
    <3>2. /\ s \in Sessions /\ session[s].status = "none" /\ UNCHANGED delivered
          /\ session' = [session EXCEPT ![s].status = "pending"]
      BY <2>1, <3>1 DEF StartLink, StartSession, Unused
    <3> QED
      BY <1>0, <3>2 DEF SessionMoves, RowTypes, SessionRow
  <2>2. CASE PollCancelled(a)
    <3>1. UNCHANGED delivered /\ app[a].session \in Sessions
      BY <1>0, <2>2 DEF PollCancelled, RequestInv
    <3>2. session' = session \/ session' = [session EXCEPT ![app[a].session] = Over]
      BY <2>2 DEF PollCancelled, CancelSession
    <3> QED
      BY <1>1, <1>2, <3>1, <3>2
  <2>3. CASE PollTimesOut(a)
    BY <1>1, <2>3 DEF PollTimesOut, serviceVars
  <2>4. CASE \/ SendPoll(a) \/ ReceivePoll(a) \/ LosePoll(a) \/ SendRefresh(a)
             \/ ReceiveRefresh(a) \/ LoseRefresh(a) \/ LeaseExpires(a) \/ Unlink(a)
    BY <1>1, <2>4 DEF SendPoll, ReceivePoll, LosePoll, SendRefresh, ReceiveRefresh,
                      LoseRefresh, LeaseExpires, Unlink
  <2> QED
    BY <1>3, <2>1, <2>2, <2>3, <2>4 DEF AppStep
<1>4. ASSUME NEW s \in Sessions, BrowserStep(s) PROVE SessionMoves(t)
  <2>1. CASE CallbackDenied(s)
    BY <1>2, <2>1 DEF CallbackDenied
  <2>2. CASE CallbackConsumes(s)
    BY <1>0, <2>2 DEF CallbackConsumes, SessionMoves, RowTypes, SessionRow
  <2>3. CASE CallbackExchanges(s) \/ CallbackUpdates(s) \/ CallbackInserts(s)
    BY <1>1, <2>3 DEF CallbackExchanges, CallbackUpdates, CallbackInserts
  <2>4. CASE CallbackFinishes(s)
    <3>1. UNCHANGED delivered /\ callback[s].link # 0
      BY <1>0, <2>4 DEF CallbackFinishes, RequestInv
    <3>2. CASE session[s].status = "exchanging"
      BY <1>0, <2>4, <3>1, <3>2 DEF CallbackFinishes, SessionMoves, RowTypes, SessionRow
    <3>3. CASE session[s].status # "exchanging"
      BY <1>1, <2>4, <3>1, <3>3 DEF CallbackFinishes
    <3> QED
      BY <3>2, <3>3
  <2>5. CASE CallbackFails(s)
    <3>1. /\ UNCHANGED delivered
          /\ session' = session \/ session' = [session EXCEPT ![s] = Over]
      BY <2>5 DEF CallbackFails
    <3> QED
      BY <1>1, <1>2, <3>1
  <2> QED
    BY <1>4, <2>1, <2>2, <2>3, <2>4, <2>5 DEF BrowserStep
<1>5. ASSUME NEW s \in Sessions, NEW k \in Slots,
             PollServed(s, k) \/ PollFails(s, k) \/ DropPoll(s, k)
      PROVE  SessionMoves(t)
  <2>1. CASE PollReads(s, k)
    <3>1. /\ UNCHANGED delivered
          /\ session' = session \/ session' = [session EXCEPT ![s] = Over]
      BY <2>1 DEF PollReads
    <3> QED
      BY <1>1, <1>2, <3>1
  <2>2. CASE PollDelivers(s, k) /\ MayInsertDevice(s)
    <3>1. /\ session[s].status = "linked"
          /\ session' = [session EXCEPT ![s] =
                           [status |-> "consumed", age |-> 0, link |-> session[s].link]]
          /\ delivered' = [delivered EXCEPT ![s] = delivered[s] + 1]
      BY <2>2 DEF PollDelivers, MayInsertDevice
    <3>2. CASE t = s
      BY <1>0, <3>1, <3>2 DEF SessionMoves, RowTypes
    <3>3. CASE t # s
      BY <1>0, <3>1, <3>3 DEF SessionMoves, RowTypes
    <3> QED
      BY <3>2, <3>3
  <2>3. CASE PollDelivers(s, k) /\ ~MayInsertDevice(s)
    BY <1>1, <2>3 DEF PollDelivers
  <2>4. CASE PollFails(s, k) \/ DropPoll(s, k)
    BY <1>1, <2>4 DEF PollFails, DropPoll
  <2> QED
    BY <1>5, <2>1, <2>2, <2>3, <2>4 DEF PollServed
<1>6. ASSUME NEW a \in Apps, \/ RefreshServed(a) \/ TokenCallFails(a) \/ RefreshFails(a)
                             \/ UnlinkRemoves(a) \/ UnlinkFails(a)
      PROVE  SessionMoves(t)
  BY <1>1, <1>6 DEF RefreshServed, RefreshLooksUp, RefreshLocks, TokenIsRotated, TokenIsRefused,
                    RefreshPersists, RefreshWipes, RefreshVerifies, TokenCallFails, RefreshFails,
                    RefreshUnchanged, UnlinkRemoves, UnlinkFails
<1>7. CASE TimeStep
  <2>1. ASSUME NEW s \in Sessions, MaintainSessions(s) PROVE SessionMoves(t)
    BY <1>2, <2>1 DEF MaintainSessions
  <2>2. ASSUME NEW s \in Sessions, SessionAges(s) PROVE SessionMoves(t)
    <3>1. /\ UNCHANGED delivered
          /\ \E age \in AgesOf(session[s].status) : session' = [session EXCEPT ![s].age = age]
      BY <2>2 DEF SessionAges
    <3> QED
      BY <1>0, <3>1 DEF SessionMoves, RowTypes, SessionRow
  <2>3. ASSUME NEW d \in devices, MaintainDevices(d) PROVE SessionMoves(t)
    BY <1>1, <2>3 DEF MaintainDevices
  <2>4. CASE MaintainLinks \/ LockExpires \/ TokenNearsExpiry \/ UserRevokes
    BY <1>1, <2>4 DEF MaintainLinks, LockExpires, TokenNearsExpiry, UserRevokes
  <2> QED
    BY <1>7, <2>1, <2>2, <2>3, <2>4 DEF TimeStep
<1>8. CASE UNCHANGED vars
  BY <1>1, <1>8 DEF vars, serviceVars
<1>9. CASE ServiceStep
  BY <1>4, <1>5, <1>6, <1>7, <1>9 DEF ServiceStep, TimeStep
<1> QED
  BY <1>3, <1>5, <1>8, <1>9 DEF Next

LEMMA DeliveredStep ==
    ASSUME PatreonInv, [Next]_vars
    PROVE  DeliveredInv'
<1> SUFFICES ASSUME NEW s \in Sessions
             PROVE  (IF session[s].status \in {"consumed", "over"}
                     THEN /\ delivered[s] <= 1
                          /\ session[s].status = "consumed" => delivered[s] = 1
                     ELSE delivered[s] = 0)'
  BY DEF DeliveredInv
<1>1. SessionMoves(s) /\ DeliveredInv
  BY SessionStep DEF PatreonInv
<1> QED
  BY <1>1 DEF SessionMoves, DeliveredInv

LEMMA RequestStep ==
    ASSUME PatreonInv, [Next]_vars
    PROVE  RequestInv'
<1>0. RowTypes /\ RequestInv
  BY TypeByRow DEF PatreonInv
<1>1. \A a \in Apps : RefreshHolds(a)'
  <2>1. (\A a \in Apps : RefreshHolds(a)') \/ refresh' = refresh
    BY CoreStep, RefreshHoldStep, ConsumesEffect, ExchangesEffect, UpdatesEffect, InsertsEffect,
       CallbackEnds, <1>0
       DEF core, RowDeleted, LockExpires, TokenNearsExpiry, UserRevokes, requests, BrowserStep,
           CallbackDenied
  <2> QED
    BY <1>0, <2>1 DEF RequestInv, RefreshHolds
<1>2. \A s \in Sessions : CallbackHolds(s)'
  <2>1. ASSUME NEW a \in Apps, RefreshStep(a) PROVE callback' = callback
    BY <1>0, <2>1, LooksUpEffect, LocksEffect, RotatedEffect, RefusedEffect, PersistsEffect,
       WipesEffect, VerifiesEffect, TokenCallFailsEffect, FailsEffect, ClientEffect
       DEF RefreshStep, RefreshServed
  <2>2. (\A s \in Sessions : CallbackHolds(s)') \/ callback' = callback
    BY <2>1, CoreStep, CallbackHoldStep
       DEF core, RowDeleted, LockExpires, TokenNearsExpiry, UserRevokes, requests
  <2> QED
    BY <1>0, <2>2 DEF RequestInv, CallbackHolds
<1> DEFINE Linked(s) == session[s].status = "linked" => session[s].link # 0
           Linking(a) == /\ app[a].linking # "no" => app[a].session \in Sessions
                         /\ app[a].linking = "waiting" => app[a].slot \in Slots
<1> HIDE DEF Linked, Linking
<1>3. ASSUME \A s \in Sessions : Linked(s)', \A a \in Apps : Linking(a)' PROVE RequestInv'
  BY <1>1, <1>2, <1>3 DEF RequestInv, RefreshHolds, CallbackHolds, Linked, Linking
<1>4. (\A s \in Sessions : Linked(s)) /\ (\A a \in Apps : Linking(a))
  BY <1>0 DEF RequestInv, Linked, Linking
<1>5. \A s \in Sessions : Linked(s)'
  BY <1>4, SessionStep DEF SessionMoves, Linked
<1>6. ASSUME NEW a \in Apps PROVE Linking(a)'
  <2>1. CASE app' = app
    BY <1>4, <2>1 DEF Linking
  <2>2. ASSUME NEW b \in Apps, AppStep(b), app' # app PROVE Linking(a)'
    <3>1. Linking(a) /\ Linking(b)
      BY <1>4
    <3>2. CASE a # b
      <4>1. app'[a] = app[a]
        BY <1>0, <2>2, <3>2
           DEF AppStep, StartLink, PollCancelled, PollTimesOut, SendPoll, ReceivePoll, LosePoll,
               SendRefresh, ReceiveRefresh, LoseRefresh, LeaseExpires, Unlink, FinishLink,
               RowTypes
      <4> QED
        BY <3>1, <4>1 DEF Linking
    <3>3. CASE a = b
      <4>1. CASE StartLink(b)
        <5>1. PICK s \in Sessions : app' = [app EXCEPT ![b].linking = "polling", ![b].session = s]
          BY <4>1 DEF StartLink, Unused
        <5> QED
          BY <1>0, <3>3, <5>1 DEF Linking, RowTypes, AppRow
      <4>2. CASE FinishLink(b)
        BY <1>0, <3>3, <4>2 DEF FinishLink, Linking, RowTypes, AppRow
      <4>3. CASE SendPoll(b)
        <5>1. /\ app[b].linking = "polling"
              /\ \E k \in Slots : app' = [app EXCEPT ![b].linking = "waiting", ![b].slot = k]
          BY <4>3 DEF SendPoll
        <5> QED
          BY <1>0, <3>1, <3>3, <5>1 DEF Linking, RowTypes, AppRow
      <4>4. CASE LosePoll(b) \/ ReceivePoll(b)
        <5>1. /\ app[b].linking = "waiting"
              /\ \/ app' = [app EXCEPT ![b].linking = "polling", ![b].slot = 0]
                 \/ FinishLink(b)
                 \/ \E d \in {poll[app[b].session][app[b].slot].device} :
                      app' = [app EXCEPT ![b] = [NoApp EXCEPT !.device = d, !.lease = d]]
          BY <4>4 DEF LosePoll, ReceivePoll
        <5>2. CASE app' = [app EXCEPT ![b].linking = "polling", ![b].slot = 0]
          BY <1>0, <3>1, <3>3, <5>1, <5>2 DEF Linking, RowTypes, AppRow
        <5>3. CASE \E d \in {poll[app[b].session][app[b].slot].device} :
                     app' = [app EXCEPT ![b] = [NoApp EXCEPT !.device = d, !.lease = d]]
          BY <1>0, <3>3, <5>3 DEF Linking, RowTypes, NoApp
        <5> QED
          BY <4>2, <5>1, <5>2, <5>3
      <4>5. CASE \/ SendRefresh(b) \/ ReceiveRefresh(b) \/ LoseRefresh(b)
                 \/ LeaseExpires(b) \/ Unlink(b)
        <5>1. /\ app'[a].linking = app[a].linking /\ app'[a].session = app[a].session
              /\ app'[a].slot = app[a].slot
          BY <1>0, <3>3, <4>5
             DEF SendRefresh, ReceiveRefresh, LoseRefresh, LeaseExpires, Unlink, RowTypes, AppRow
        <5> QED
          BY <3>1, <5>1 DEF Linking
      <4> QED
        BY <2>2, <4>1, <4>2, <4>3, <4>4, <4>5 DEF AppStep, PollCancelled, PollTimesOut
    <3> QED
      BY <3>2, <3>3
  <2> QED
    BY <2>1, <2>2 DEF Next, DropPoll, vars
<1> QED
  BY <1>3, <1>5, <1>6

LEMMA DeviceStep ==
    ASSUME PatreonInv, [Next]_vars
    PROVE  DeviceInv'
<1>0. RowTypes /\ RequestInv /\ DeviceInv
  BY TypeByRow DEF PatreonInv
<1> USE DEF rows, requests, history
<1>1. ASSUME devices' \subseteq devices, link'.id = link.id PROVE DeviceInv'
  BY <1>0, <1>1 DEF DeviceInv
<1>2. ASSUME devices' \subseteq devices, \A d \in devices' : d.link # link.id PROVE DeviceInv'
  BY <1>0, <1>2 DEF DeviceInv
<1>3. ASSUME NEW a \in Apps, RefreshStep(a) PROVE DeviceInv'
  <2>1. devices' = devices
    BY <1>3 DEF RefreshStep, RefreshServed, RefreshLooksUp, RefreshLocks, TokenIsRotated,
                TokenIsRefused, RefreshPersists, RefreshWipes, RefreshVerifies, TokenCallFails,
                RefreshFails, RefreshUnchanged, SendRefresh, ReceiveRefresh, LoseRefresh
  <2>2. link'.id = link.id
    BY <1>0, <1>3, LooksUpEffect, LocksEffect, RotatedEffect, RefusedEffect, PersistsEffect,
       WipesEffect, VerifiesEffect, TokenCallFailsEffect, FailsEffect, ClientEffect
       DEF RefreshStep, RefreshServed, LockBecomes
  <2> QED
    BY <1>1, <2>1, <2>2
<1>4. ASSUME NEW a \in Apps, AppStep(a) PROVE DeviceInv'
  <2>1. CASE PollTimesOut(a)
    BY <1>1, <2>1 DEF PollTimesOut, serviceVars
  <2>2. CASE \/ StartLink(a) \/ PollCancelled(a) \/ SendPoll(a) \/ ReceivePoll(a)
             \/ LosePoll(a) \/ LeaseExpires(a) \/ Unlink(a)
    BY <1>1, <2>2 DEF StartLink, PollCancelled, SendPoll, ReceivePoll, LosePoll, LeaseExpires,
                      Unlink
  <2> QED
    BY <1>3, <1>4, <2>1, <2>2 DEF AppStep, RefreshStep
<1>5. ASSUME NEW s \in Sessions, BrowserStep(s) PROVE DeviceInv'
  <2>1. devices' = devices
    BY <1>5 DEF BrowserStep, CallbackDenied, CallbackConsumes, CallbackExchanges,
                CallbackUpdates, CallbackInserts, CallbackFinishes, CallbackFails
  <2>2. link'.id = link.id \/ link.id = 0
    BY <1>0, <1>5, ConsumesEffect, ExchangesEffect, UpdatesEffect, InsertsEffect, CallbackEnds
       DEF BrowserStep, CallbackDenied
  <2>3. CASE link.id = 0
    BY <1>0, <1>2, <2>1, <2>3 DEF DeviceInv
  <2> QED
    BY <1>1, <2>1, <2>2, <2>3
<1>6. ASSUME NEW s \in Sessions, NEW k \in Slots,
             PollServed(s, k) \/ PollFails(s, k) \/ DropPoll(s, k)
      PROVE  DeviceInv'
  <2>1. CASE PollDelivers(s, k) /\ MayInsertDevice(s)
    <3>1. /\ link' = link
          /\ devices' = Newest(devices \cup {[id |-> deviceIds', link |-> session[s].link]})
          /\ session[s].status = "linked" /\ session[s].link = link.id
      BY <2>1 DEF PollDelivers, MayInsertDevice
    <3>2. session[s].link # 0
      BY <1>0, <3>1 DEF RequestInv
    <3>3. devices' \subseteq devices \cup {[id |-> deviceIds', link |-> session[s].link]}
      BY <3>1, NewestOf
    <3> QED
      BY <1>0, <3>1, <3>2, <3>3 DEF DeviceInv
  <2>2. CASE PollDelivers(s, k) /\ ~MayInsertDevice(s)
    BY <1>1, <2>2 DEF PollDelivers
  <2>3. CASE PollReads(s, k) \/ PollFails(s, k) \/ DropPoll(s, k)
    BY <1>1, <2>3 DEF PollReads, PollFails, DropPoll
  <2> QED
    BY <1>6, <2>1, <2>2, <2>3 DEF PollServed
<1>7. ASSUME NEW a \in Apps, UnlinkRemoves(a) \/ UnlinkFails(a) PROVE DeviceInv'
  <2>1. CASE UnlinkRemoves(a)
    <3>1. /\ devices' \subseteq devices
          /\ link' = link \/ ~\E d \in devices' : d.link = link.id
      BY <2>1 DEF UnlinkRemoves
    <3> QED
      BY <1>1, <1>2, <3>1
  <2>2. CASE UnlinkFails(a)
    BY <1>1, <2>2 DEF UnlinkFails
  <2> QED
    BY <1>7, <2>1, <2>2
<1>8. CASE TimeStep
  <2>1. CASE MaintainLinks
    BY <1>2, <2>1 DEF MaintainLinks, Orphan
  <2>2. CASE LockExpires \/ TokenNearsExpiry
    BY <1>0, <1>1, <2>2 DEF LockExpires, TokenNearsExpiry, RowTypes, LinkOK, LinkRow
  <2>3. ASSUME NEW s \in Sessions, MaintainSessions(s) \/ SessionAges(s) PROVE DeviceInv'
    BY <1>1, <2>3 DEF MaintainSessions, SessionAges
  <2>4. ASSUME NEW d \in devices, MaintainDevices(d) PROVE DeviceInv'
    BY <1>1, <2>4 DEF MaintainDevices
  <2>5. CASE UserRevokes
    BY <1>1, <2>5 DEF UserRevokes
  <2> QED
    BY <1>8, <2>1, <2>2, <2>3, <2>4, <2>5 DEF TimeStep
<1>9. CASE UNCHANGED vars
  BY <1>1, <1>9 DEF vars, serviceVars
<1>10. CASE ServiceStep
  BY <1>3, <1>5, <1>6, <1>7, <1>8, <1>10 DEF ServiceStep, TimeStep, RefreshStep
<1> QED
  BY <1>4, <1>6, <1>9, <1>10 DEF Next

-----------------------------------------------------------------------------
(* The theorems.                                                            *)

LEMMA InitPatreonInv == Init => PatreonInv
<1> SUFFICES ASSUME Init PROVE PatreonInv
  OBVIOUS
<1> DEFINE Linked(linked, number) ==
      /\ link = IF linked = {} THEN NoLink ELSE WithTokens(1, TRUE, 1, 1)
      /\ devices = {[id |-> number[a], link |-> 1] : a \in linked}
      /\ deviceIds = Cardinality(linked)
      /\ app = [a \in Apps |-> IF a \in linked
                               THEN [NoApp EXCEPT !.device = number[a], !.lease = number[a]]
                               ELSE NoApp]
<1>0. PICK linked \in SUBSET Apps : \E number \in [linked -> 1..Cardinality(linked)] :
        Linked(linked, number)
  BY DEF Init
<1>1. PICK number \in [linked -> 1..Cardinality(linked)] : Linked(linked, number)
  BY <1>0
<1>2. /\ session = [s \in Sessions |-> [status |-> "none", age |-> 0, link |-> 0]]
      /\ callback = [s \in Sessions |-> NoCallback]
      /\ poll = [s \in Sessions |-> [k \in Slots |-> NoPoll]]
      /\ refresh = [a \in Apps |-> NoRefresh]
      /\ unlinking = [a \in Apps |-> 0]
      /\ accepted = {link.token} \ {0} /\ tokens = link.token /\ links = link.id
      /\ expiries = 0 /\ faults = 0
      /\ delivered = [s \in Sessions |-> 0] /\ ended = {}
  BY DEF Init
<1>3. Cardinality(linked) \in Nat
  BY AppsAssumption, FS_Subset, FS_CardinalityType
<1>4. \A a \in linked : number[a] \in Nat \ {0}
  BY <1>3
<1>5. \/ link = NoLink /\ linked = {}
      \/ /\ link.id = 1 /\ link.active /\ link.token = 1 /\ link.version = 1
         /\ ~link.expiring /\ link \in LinkRow
  BY <1>1, WithTokensType DEF WithTokens, LinkRow
<1>6. link.id \in Nat /\ link.token \in Nat /\ link.version \in Nat
  BY <1>5, Constants DEF LinkRow
<1>7. RowTypes
  <2>1. LinkOK
    BY <1>5, Constants DEF LinkOK
  <2>2. session \in [Sessions -> SessionRow]
    BY <1>2 DEF SessionRow
  <2>3. devices \subseteq [id : Nat, link : Nat]
    <3>1. devices = {[id |-> number[a], link |-> 1] : a \in linked}
      BY <1>1
    <3> QED
      BY <1>4, <3>1
  <2>4. /\ callback \in [Sessions -> CallbackRow] /\ poll \in [Sessions -> [Slots -> PollRow]]
        /\ refresh \in [Apps -> RefreshRow] /\ unlinking \in [Apps -> Nat]
    BY <1>2, Constants
  <2>5. app \in [Apps -> AppRow]
    <3>1. ASSUME NEW a \in linked
          PROVE  [NoApp EXCEPT !.device = number[a], !.lease = number[a]] \in AppRow
      BY <1>4, Constants DEF AppRow, NoApp
    <3> QED
      BY <1>1, <3>1, Constants
  <2>6. /\ accepted \subseteq Nat /\ tokens \in Nat /\ links \in Nat /\ deviceIds \in Nat
        /\ expiries \in Nat /\ faults \in Nat /\ ended \subseteq Nat
        /\ delivered \in [Sessions -> Nat]
    BY <1>1, <1>2, <1>3, <1>6
  <2> QED
    BY <2>1, <2>2, <2>3, <2>4, <2>5, <2>6 DEF RowTypes
<1>8. RequestInv
  <2>1. \A a \in Apps : app[a].linking = "no"
    BY <1>1 DEF NoApp
  <2> QED
    BY <1>2, <2>1 DEF RequestInv, NoCallback, NoRefresh, Using
<1>9. DeviceInv
  <2>1. devices = {[id |-> number[a], link |-> 1] : a \in linked}
    BY <1>1
  <2> QED
    BY <1>5, <2>1 DEF DeviceInv
<1>10. DeliveredInv /\ LockInv
  BY <1>2 DEF DeliveredInv, LockInv, Calls, NoRefresh
<1>11. AgeInv
  <2>1. \A a \in Apps : RefreshAge(a)
    BY <1>2, <1>6 DEF RefreshAge, NoRefresh
  <2>2. \A s \in Sessions : callback[s].token <= tokens /\ callback[s].link <= links
    BY <1>2, <1>6 DEF NoCallback
  <2>3. link.token <= tokens /\ link.id <= links /\ \A t \in accepted : t <= tokens
    BY <1>2, <1>6
  <2> QED
    BY <2>1, <2>2, <2>3 DEF AgeInv
<1>12. TokenInv
  <2>1. LinkTokenInv
    BY <1>2, <1>5, Constants DEF LinkTokenInv, Good
  <2>2. RefreshTokenInv /\ CallbackTokenInv
    BY <1>2 DEF RefreshTokenInv, CallbackTokenInv, Calls, NoRefresh, NoCallback
  <2> QED
    BY <2>1, <2>2 DEF TokenInv
<1> QED
  BY <1>7, <1>8, <1>9, <1>10, <1>11, <1>12, TypeByRow DEF PatreonInv

LEMMA PatreonStep == PatreonInv /\ [Next]_vars => PatreonInv'
  BY TypeStep, RequestStep, DeviceStep, DeliveredStep, LockStep, AgeStep, TokenStep
     DEF PatreonInv

LEMMA AlwaysPatreonInv == Spec => []PatreonInv
<1>1. PatreonInv /\ [Next]_vars => PatreonInv'
  BY PatreonStep
<1> QED
  BY InitPatreonInv, <1>1, PTL DEF Spec

\* The rows, the requests and what the apps store keep their types.
THEOREM TypeCorrect == Spec => []TypeOK
<1>1. PatreonInv => TypeOK
  BY DEF PatreonInv
<1> QED
  BY AlwaysPatreonInv, <1>1, PTL

\* No device is left without its link, whatever is served between a poll's read and its batch.
THEOREM DevicesHaveLinks == Spec => []DeviceHasLink
<1>1. PatreonInv => DeviceHasLink
  BY DEF PatreonInv, DeviceInv, DeviceHasLink
<1> QED
  BY AlwaysPatreonInv, <1>1, PTL

\* The credentials of a session are given out at most once, however many polls are served.
THEOREM DeliveredAtMostOnce == Spec => []DeliveredOnce
<1>1. PatreonInv => DeliveredOnce
  <2> SUFFICES ASSUME PatreonInv, NEW s \in Sessions
               PROVE  /\ delivered[s] <= 1
                      /\ session[s].status = "consumed" => delivered[s] = 1
                      /\ session[s].status = "linked" => delivered[s] = 0
    BY DEF DeliveredOnce
  <2> QED
    BY DEF PatreonInv, DeliveredInv
<1> QED
  BY AlwaysPatreonInv, <1>1, PTL

\* No two refreshes of one account present a refresh token at the same time.
THEOREM CallsOneAtATime == Spec => []OneTokenCall
<1>1. PatreonInv => OneTokenCall
  BY DEF PatreonInv, LockInv, Calls, OneTokenCall
<1> QED
  BY AlwaysPatreonInv, <1>1, PTL

\* No token call presents a refresh token that an earlier one has used up, whatever was
\* interleaved between the request that read the token and the one that rotated it.
THEOREM TokensUsedOnce == Spec => []TokensAreUsedOnce
<1>1. PatreonInv => TokensAreUsedOnce
  BY DEF PatreonInv, TokenInv, RefreshTokenInv, Calls, Good, TokensAreUsedOnce
<1> QED
  BY AlwaysPatreonInv, <1>1, PTL

LEMMA RelinkStep ==
    ASSUME PatreonInv, [Next]_vars, link'.id = link.id, link'.token \in 1..(link.token - 1)
    PROVE  callback' # callback
<1> SUFFICES ASSUME callback' = callback PROVE FALSE
  OBVIOUS
<1>0. RowTypes /\ RequestInv /\ AgeInv
  BY TypeByRow DEF PatreonInv
<1>1. /\ link.token \in Nat /\ link'.token \in Nat /\ link'.token # 0 /\ link'.token < link.token
  BY <1>0 DEF RowTypes, LinkOK, LinkRow
<1>2. ASSUME link'.token = link.token \/ link'.token = 0 PROVE FALSE
  BY <1>1, <1>2
<1>3. ASSUME NEW a \in Apps, RefreshStep(a) PROVE FALSE
  <2>1. CASE RefreshPersists(a)
    <3>1. /\ refresh[a].at = "persist"
          /\ link' = link \/ (Current(a) /\ link'.token = refresh[a].token)
      BY <1>0, <2>1, PersistsEffect
    <3>2. Current(a) => link.token < refresh[a].token
      BY <1>0, <3>1 DEF AgeInv, RefreshAge
    <3>3. refresh[a].token \in Nat
      BY <1>0 DEF RowTypes, RefreshRow
    <3> QED
      BY <1>1, <1>2, <3>1, <3>2, <3>3
  <2>2. CASE ~RefreshPersists(a)
    BY <1>0, <1>2, <1>3, <2>2, LooksUpEffect, LocksEffect, RotatedEffect, RefusedEffect,
       WipesEffect, VerifiesEffect, TokenCallFailsEffect, FailsEffect, ClientEffect
       DEF RefreshStep, RefreshServed, LockBecomes
  <2> QED
    BY <2>1, <2>2
<1>4. ASSUME NEW s \in Sessions, BrowserStep(s) PROVE FALSE
  <2>1. CASE CallbackUpdates(s)
    BY <1>0, <2>1, UpdatesEffect
  <2>2. CASE CallbackInserts(s)
    BY <1>0, <1>2, <2>2, InsertsEffect
  <2>3. CASE \/ CallbackDenied(s) \/ CallbackConsumes(s) \/ CallbackExchanges(s)
             \/ CallbackFinishes(s) \/ CallbackFails(s)
    BY <1>0, <1>2, <2>3, ConsumesEffect, ExchangesEffect, CallbackEnds DEF CallbackDenied
  <2> QED
    BY <1>4, <2>1, <2>2, <2>3 DEF BrowserStep
<1>5. CASE UNCHANGED core \/ RowDeleted
  BY <1>2, <1>5, Constants DEF core, RowDeleted
<1>6. CASE LockExpires \/ TokenNearsExpiry \/ UserRevokes
  BY <1>0, <1>2, <1>6 DEF LockExpires, TokenNearsExpiry, UserRevokes, rows, RowTypes, LinkOK,
                          LinkRow
<1> QED
  BY <1>3, <1>4, <1>5, <1>6, CoreStep

\* A refresh that a re-link has overtaken does not put its older token back.
THEOREM RelinkIsKept == Spec => RotationKeepsRelink
<1>1. PatreonInv /\ [Next]_vars
        => [link'.id = link.id /\ link'.token \in 1..(link.token - 1) => callback' # callback]_vars
  BY RelinkStep
<1> QED
  BY AlwaysPatreonInv, <1>1, PTL DEF Spec, RotationKeepsRelink
=============================================================================
