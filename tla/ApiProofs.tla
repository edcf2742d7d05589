----------------------------- MODULE ApiProofs -----------------------------
(***************************************************************************)
(* Proofs about Api, for any number of requests and tenants and any        *)
(* changes made by others meanwhile.                                       *)
(***************************************************************************)
EXTENDS Api, TLAPS

Handling == {"get", "list", "create", "update", "status", "delete", "pod", "stream"}

\* The settings are those that LoadConfig accepts.
SettingsFit ==
    /\ settings \in [auth : BOOLEAN, tenant : BOOLEAN, keysFile : BOOLEAN]
    /\ LoadConfig(settings)
    /\ kind \in {"tasks", "workflows"}

\* Whoever holds a copy of an object, however old, has the tenant label that
\* the object was created with.
Genuine(obj) == obj = NoObject \/ (obj.uid \in DOMAIN born /\ obj.tenant = born[obj.uid])

ClusterFits ==
    /\ born \in Seq(Namespaces)
    /\ accounts \in [Tenants -> 0..2] /\ keys \subseteq Tenants
    /\ object \in Objects /\ Genuine(object)
    /\ cache \in Objects /\ Genuine(cache)

\* The tenant scope of a request, the permissions of its route and the writes
\* they stand for, and what it did.
ScopeOf(c) == Scope(req[c])
Asked(c) == RoutePermissions(req[c].route)
Writes(c) == ToSet(Asked(c)) \ {"get"}
VerbsOf(c) == {e.verb : e \in req[c].did}

\* A request is at a step that its route has.
RouteFits(c) == LET r == req[c] IN
    /\ r.step # "idle" => r.route \in Routes
    /\ r.step \in {"create", "list"} => r.route = r.step
    /\ r.step = "get" => r.route \notin {"create", "list"}
    /\ r.step = "update" => r.route \in {"update", "trigger", "suspend"}
    /\ r.step = "status" => r.route = "trigger"
    /\ r.step = "delete" => r.route = "delete"
    /\ (r.step \in {"pod", "stream"} \/ r.pod # 0) => r.route = "logs"
    /\ r.pod # 0 => r.step \in {"authorize", "stream", "audit", "done"}

\* What a request has read is genuine and of its own tenant; a Pod is one of
\* the object that was read.
CopyFits(c) == LET r == req[c] IN
    /\ Genuine(r.copy)
    /\ (r.copy # NoObject /\ ScopeOf(c) # Nobody) => r.copy.tenant = ScopeOf(c)
    /\ r.step \in {"update", "status", "pod"} => r.copy # NoObject
    /\ r.pod # 0 => /\ r.copy # NoObject
                    /\ born[r.pod] = r.copy.tenant
                    /\ r.copy.tenant # Nobody => r.pod = r.copy.uid
    /\ r.step = "stream" => r.pod # 0

\* The credential of a request is void by now.
Void(c) ==
    \/ req[c].cred = "none"
    \/ accounts[req[c].who] # 1
    \/ req[c].cred = "key" /\ req[c].who \notin keys

\* Nothing but Authentication gives a request its identity.
IdentityFits(c) == LET r == req[c] IN
    /\ (Mode # "anonymous" /\ r.step # "idle") => r.who \in Tenants
    /\ r.step \in {"authenticate", "account", "authorize"} => Mode # "anonymous"
    /\ r.step \in {"authenticate", "account"} =>
          ~r.user /\ r.pod = 0 /\ r.todo = Asked(c)
    /\ r.step = "account" => r.cred = "key"
    /\ (Mode # "anonymous" /\ r.step \in Handling \cup {"authorize"}) => r.user
    /\ r.step = "audit" => r.user /\ r.route \in AuditOperations

\* A request whose credential was void when it arrived stays without identity
\* and effect, for a void credential stays void.
LateRefused(c) == LET r == req[c] IN
    r.late => /\ Mode # "anonymous" /\ r.step # "idle"
              /\ Void(c)
              /\ r.step = "account" => accounts[r.who] # 1
              /\ ~r.user /\ r.did = {} /\ r.status \in {0, 401, 503}

\* Authorization has something left to ask, and the log comes last.
TodoFits(c) == LET r == req[c] IN
    r.step = "authorize" =>
        /\ r.todo # <<>>
        /\ r.pod # 0 => r.todo = <<"log">>
        /\ r.pod = 0 => \A j \in DOMAIN r.todo : r.todo[j] # "log"

\* The permission was not revoked before the request arrived.
Granted(c, verb, ns) == Permission(req[c], verb, ns) \notin req[c].barred

\* A permission of the route is still to be asked for, or was granted.
Cleared(c) == LET r == req[c] IN
    (Mode # "anonymous" /\ r.step \in Handling \cup {"authorize"}) =>
        \A i \in DOMAIN Asked(c) :
            \/ Granted(c, Asked(c)[i], ScopeOf(c))
            \/ /\ r.step = "authorize" /\ r.pod = 0
               /\ \E j \in DOMAIN r.todo : r.todo[j] = Asked(c)[i]

\* The log of a Pod is streamed with the permission for it.
LogCleared(c) ==
    (Mode # "anonymous" /\ req[c].step = "stream") => Granted(c, "log", born[req[c].pod])

\* Effects come late, and the answer and the audit after them.
EffectsFit(c) == LET r == req[c] IN
    /\ r.step \notin {"status", "audit", "done"} => r.did = {}
    /\ r.step = "status" => VerbsOf(c) = {"update"}
    /\ r.step \in {"audit", "done"} <=> r.status # 0
    /\ r.step # "done" => r.event = "none"
    /\ "log" \in VerbsOf(c) => r.pod # 0

\* What TenantsApart, AllowedOnly and AnswersTrue say of one request.
Apart(c) == settings.tenant => \A e \in req[c].did : e.tenant = req[c].who
Allowed(c) ==
    Mode # "anonymous" => \A e \in req[c].did :
        Granted(c, e.verb, IF e.verb = "log" THEN e.tenant ELSE ScopeOf(c))
Answers(c) == LET r == req[c] IN
    /\ (r.status \in {200, 201} /\ r.route \in AuditOperations) => VerbsOf(c) = Writes(c)
    /\ r.status \in 400..499 \cup {503} => VerbsOf(c) = {}
    /\ r.step = "done" =>
          /\ r.event # "none" <=> (r.user /\ r.route \in AuditOperations)
          /\ r.event = "denied" => VerbsOf(c) = {}
          /\ r.event = "succeeded" => VerbsOf(c) # {}

RequestInv(c) ==
    /\ RouteFits(c) /\ CopyFits(c) /\ IdentityFits(c) /\ LateRefused(c)
    /\ TodoFits(c) /\ Cleared(c) /\ LogCleared(c)
    /\ EffectsFit(c) /\ Apart(c) /\ Allowed(c) /\ Answers(c)

\* The inductive invariant.
IInv == /\ SettingsFit
        /\ ClusterFits
        /\ req \in [Clients -> RequestType]
        /\ \A c \in Clients : RequestInv(c)

-----------------------------------------------------------------------------
(* Facts about the operators.                                              *)

\* The three modes, and what a tenant scope is.
LEMMA ModeFacts ==
    ASSUME SettingsFit
    PROVE  /\ Mode \in {"anonymous", "auth", "tenant"}
           /\ settings.tenant => Mode = "tenant"
<1>1. settings.auth \in BOOLEAN /\ settings.tenant \in BOOLEAN
  BY DEF SettingsFit
<1>2. settings.tenant => settings.auth
  BY DEF SettingsFit, LoadConfig
<1> QED
  BY <1>1, <1>2, Zenon DEF Mode

\* Every route asks for some permission, and none for that of logs, which
\* depends on the Pod.
LEMMA RoutePermissionsFacts ==
    ASSUME SettingsFit, NEW route \in Routes
    PROVE  /\ RoutePermissions(route) \in Seq(Verbs)
           /\ RoutePermissions(route) # <<>>
           /\ \A i \in DOMAIN RoutePermissions(route) : RoutePermissions(route)[i] # "log"
<1>1. route \in {"create", "list", "get", "update", "delete", "trigger", "suspend", "logs"}
  BY DEF Routes
<1>2. \/ RoutePermissions(route) = <<"get", "update">>
      \/ RoutePermissions(route) = <<"get", "update", "status">>
      \/ RoutePermissions(route) = <<"get">>
      \/ RoutePermissions(route) = <<"get", "delete">>
      \/ RoutePermissions(route) = <<route>> /\ route # "logs"
  BY <1>1 DEF RoutePermissions
<1>3. route \in Verbs \ {"log"} \/ route \in {"trigger", "suspend", "logs"}
  BY <1>1 DEF Verbs
<1>4. route \in {"trigger", "suspend"} =>
        RoutePermissions(route) \in {<<"get", "update">>, <<"get", "update", "status">>}
  BY DEF RoutePermissions
<1> DEFINE Fine(p) == p \in Seq(Verbs) /\ p # <<>> /\ \A i \in DOMAIN p : p[i] # "log"
<1>5. Fine(<<"get", "update">>) /\ Fine(<<"get", "update", "status">>) /\ Fine(<<"get", "delete">>)
  BY DEF Verbs
<1>6. ASSUME NEW v \in Verbs \ {"log"} PROVE Fine(<<v>>)
  OBVIOUS
<1>7. Fine(<<"get">>) /\ (route \in Verbs \ {"log"} => Fine(<<route>>))
  BY <1>6 DEF Verbs
<1> QED
  BY <1>2, <1>3, <1>4, <1>5, <1>7

\* The permissions of a route cover the writes of its handler.
LEMMA RoutePermissionsCover ==
    ASSUME SettingsFit
    PROVE  /\ \A route \in {"get", "list", "create", "delete"} :
                \E i \in DOMAIN RoutePermissions(route) : RoutePermissions(route)[i] = route
           /\ \A route \in {"update", "suspend", "trigger"} :
                \E i \in DOMAIN RoutePermissions(route) : RoutePermissions(route)[i] = "update"
           /\ \E i \in DOMAIN RoutePermissions("trigger") : RoutePermissions("trigger")[i] = "status"
           /\ \A route \in {"create", "delete"} :
                ToSet(RoutePermissions(route)) \ {"get"} = {route}
           /\ \A route \in {"update", "suspend"} :
                ToSet(RoutePermissions(route)) \ {"get"} = {"update"}
           /\ ToSet(RoutePermissions("trigger")) \ {"get"} = {"update", "status"}
<1>1. /\ \A route \in {"update", "suspend"} : RoutePermissions(route) = <<"get", "update">>
      /\ RoutePermissions("trigger") = <<"get", "update", "status">>
      /\ \A route \in {"get", "list", "create"} : RoutePermissions(route) = <<route>>
      /\ RoutePermissions("delete") \in {<<"delete">>, <<"get", "delete">>}
  BY DEF RoutePermissions
<1>2. ASSUME NEW v PROVE <<v>>[1] = v /\ 1 \in DOMAIN <<v>> /\ ToSet(<<v>>) = {v}
  BY DEF ToSet
<1>3. ASSUME NEW u, NEW v
      PROVE  /\ <<u, v>>[2] = v /\ 2 \in DOMAIN <<u, v>>
             /\ ToSet(<<u, v>>) = {u, v}
  BY DEF ToSet
<1>4. ASSUME NEW u, NEW v, NEW x
      PROVE  /\ <<u, v, x>>[2] = v /\ <<u, v, x>>[3] = x /\ {2, 3} \subseteq DOMAIN <<u, v, x>>
             /\ ToSet(<<u, v, x>>) = {u, v, x}
  BY DEF ToSet
<1>5. /\ \A route \in {"get", "list", "create", "delete"} :
           \E i \in DOMAIN RoutePermissions(route) : RoutePermissions(route)[i] = route
      /\ \A route \in {"update", "suspend", "trigger"} :
           \E i \in DOMAIN RoutePermissions(route) : RoutePermissions(route)[i] = "update"
      /\ \E i \in DOMAIN RoutePermissions("trigger") : RoutePermissions("trigger")[i] = "status"
  BY <1>1, <1>2, <1>3, <1>4
<1>6. ToSet(RoutePermissions("create")) \ {"get"} = {"create"}
  BY <1>1, <1>2
<1>7. ToSet(RoutePermissions("delete")) \ {"get"} = {"delete"}
  BY <1>1, <1>2, <1>3
<1>8. \A route \in {"update", "suspend"} : ToSet(RoutePermissions(route)) \ {"get"} = {"update"}
  BY <1>1, <1>3
<1>9. ToSet(RoutePermissions("trigger")) \ {"get"} = {"update", "status"}
  BY <1>1, <1>4
<1> QED
  BY <1>5, <1>6, <1>7, <1>8, <1>9

-----------------------------------------------------------------------------
(* What happens in the cluster meanwhile.                                  *)

\* UIDs and revoked permissions only become more; accounts that are gone or
\* made again and bindings that were removed do not come back.
Grows ==
    /\ UNCHANGED <<settings, kind>>
    /\ born' \in Seq(Namespaces)
    /\ Len(born) <= Len(born')
    /\ \A u \in DOMAIN born : u \in DOMAIN born' /\ born'[u] = born[u]
    /\ revoked \subseteq revoked'
    /\ \A t \in Tenants : accounts'[t] = 1 => accounts[t] = 1
    /\ keys' \subseteq keys

\* A step that creates nothing and leaves settings, accounts, keys and permissions alone
\* only lets the history grow (by nothing).
LEMMA GrowsQuietly ==
    ASSUME ClusterFits, UNCHANGED <<settings, kind, born, revoked, accounts, keys>>
    PROVE  Grows
  BY DEF ClusterFits, Grows

\* A creation adds one UID to the history, with the namespace it was created in; earlier
\* UIDs keep theirs.
LEMMA GrowsByOne ==
    ASSUME ClusterFits, UNCHANGED <<settings, kind, revoked, accounts, keys>>,
           NEW t \in Namespaces, born' = Append(born, t)
    PROVE  /\ Grows
           /\ Len(born) + 1 \in DOMAIN born' /\ born'[Len(born) + 1] = t
  BY DEF ClusterFits, Grows

\* What was a well-formed request stays one when more objects have been created or more
\* permissions revoked.
LEMMA TypeGrows ==
    ASSUME ClusterFits, Grows
    PROVE  RequestType \subseteq RequestType'
<1>1. Routes' = Routes /\ Namespaces' = Namespaces
  BY DEF Grows, Routes, Namespaces
<1>2. 0..Len(born) \subseteq 0..Len(born')
  BY DEF Grows, ClusterFits
<1>3. SUBSET revoked \subseteq SUBSET revoked'
  BY DEF Grows
<1> QED
  BY <1>1, <1>2, <1>3 DEF RequestType

\* A genuine copy stays genuine.
LEMMA GenuineStays ==
    ASSUME Grows, NEW obj, Genuine(obj)
    PROVE  Genuine(obj)'
  BY DEF Grows, Genuine

\* The configuration is read once.
LEMMA ConfigStays ==
    ASSUME Grows
    PROVE  /\ Mode' = Mode /\ Routes' = Routes
           /\ \A route : RoutePermissions(route)' = RoutePermissions(route)
<1>1. settings' = settings /\ kind' = kind
  BY DEF Grows
<1>2. Mode' = Mode
  BY <1>1 DEF Mode
<1> QED
  BY <1>1, <1>2 DEF Routes, RoutePermissions

\* A request that keeps its route and requester keeps what it is to be asked.
LEMMA AskedStays ==
    ASSUME Grows, NEW c \in Clients, req'[c].route = req[c].route, req'[c].who = req[c].who
    PROVE  ScopeOf(c)' = ScopeOf(c) /\ Asked(c)' = Asked(c) /\ Writes(c)' = Writes(c)
<1>1. settings' = settings /\ kind' = kind
  BY DEF Grows
<1>2. ScopeOf(c)' = ScopeOf(c)
  BY <1>1, ConfigStays DEF ScopeOf, Scope
<1>3. Asked(c)' = Asked(c)
  BY <1>1 DEF Asked, RoutePermissions
<1> QED
  BY <1>2, <1>3 DEF Writes

\* A request is not disturbed by what happens in the cluster.
LEMMA RequestStays ==
    ASSUME ClusterFits, Grows, NEW c \in Clients, req[c] \in RequestType,
           RequestInv(c), req'[c] = req[c]
    PROVE  RequestInv(c)'
<1> USE DEF RequestInv
<1>0. /\ Mode' = Mode /\ Routes' = Routes
      /\ ScopeOf(c)' = ScopeOf(c) /\ Asked(c)' = Asked(c) /\ Writes(c)' = Writes(c)
  BY ConfigStays, AskedStays
<1>1. RouteFits(c)'
  BY <1>0 DEF RouteFits
<1>2. req[c].pod # 0 => req[c].pod \in DOMAIN born
  BY DEF RequestType, ClusterFits
<1>3. CopyFits(c)'
  BY <1>0, <1>2 DEF CopyFits, Genuine, Grows, RequestType
<1>4. IdentityFits(c)' /\ LateRefused(c)'
  <2>1. IdentityFits(c)'
    BY <1>0 DEF IdentityFits
  <2>2. LateRefused(c)'
    BY <1>0 DEF LateRefused, IdentityFits, Void, Grows
  <2> QED
    BY <2>1, <2>2
<1>5. TodoFits(c)'
  BY DEF TodoFits
<1>6. Cleared(c)'
  BY <1>0 DEF Cleared, Granted, Permission
<1>7. LogCleared(c)'
  <2>1. req[c].step = "stream" => born'[req[c].pod] = born[req[c].pod]
    <3> SUFFICES ASSUME req[c].step = "stream" PROVE born'[req[c].pod] = born[req[c].pod]
      OBVIOUS
    <3>1. req[c].pod \in DOMAIN born
      BY <1>2 DEF CopyFits
    <3> QED
      BY <3>1 DEF Grows
  <2> QED
    BY <1>0, <2>1 DEF LogCleared, Granted, Permission
<1>8. VerbsOf(c)' = VerbsOf(c)
  BY DEF VerbsOf
<1>9. EffectsFit(c)' /\ Answers(c)'
  BY <1>0, <1>8 DEF EffectsFit, Answers
<1>10. Apart(c)'
  BY DEF Apart, Grows
<1>11. Allowed(c)'
  BY <1>0 DEF Allowed, Granted, Permission
<1> QED
  BY <1>1, <1>3, <1>4, <1>5, <1>6, <1>7, <1>9, <1>10, <1>11

-----------------------------------------------------------------------------
(* What a step does to its request.                                        *)

\* The request at which a step was made is in order again, the others are as
\* they were.
Moved(c) ==
    /\ req' \in [Clients -> RequestType']
    /\ \A d \in Clients : d # c => req'[d] = req[d]
    /\ RequestInv(c)'

\* Then the whole system is.
LEMMA MovedIInv ==
    ASSUME IInv, Grows, ClusterFits', NEW c \in Clients, Moved(c)
    PROVE  IInv'
<1>1. SettingsFit'
  BY DEF IInv, SettingsFit, Grows, LoadConfig
<1>2. ASSUME NEW d \in Clients PROVE RequestInv(d)'
  <2>1. CASE d = c
    BY <2>1 DEF Moved
  <2>2. CASE d # c
    BY <2>2, RequestStays DEF Moved, IInv
  <2> QED
    BY <2>1, <2>2
<1> QED
  BY <1>1, <1>2 DEF IInv, Moved

\* Respond writes a status and moves on to Audit or the end.
LEMMA RespondFacts ==
    ASSUME req \in [Clients -> RequestType], RequestType \subseteq RequestType',
           NEW c \in Clients, NEW r \in RequestType', NEW status \in Statuses,
           Respond(c, r, status)
    PROVE  /\ req' \in [Clients -> RequestType']
           /\ \A d \in Clients : d # c => req'[d] = req[d]
           /\ req'[c].status = status
           /\ req'[c].step = IF r.user /\ r.route \in AuditOperations THEN "audit" ELSE "done"
           /\ req'[c].route = r.route /\ req'[c].cred = r.cred /\ req'[c].who = r.who
           /\ req'[c].user = r.user /\ req'[c].todo = r.todo /\ req'[c].copy = r.copy
           /\ req'[c].pod = r.pod /\ req'[c].event = r.event /\ req'[c].did = r.did
           /\ req'[c].late = r.late /\ req'[c].barred = r.barred
<1> DEFINE step == IF r.user /\ r.route \in AuditOperations THEN "audit" ELSE "done"
           new == [r EXCEPT !.status = status, !.step = step]
<1>1. req' = [req EXCEPT ![c] = new]
  BY DEF Respond
<1>2. step \in {"audit", "done"}
  OBVIOUS
<1> HIDE DEF step
<1>3. new \in RequestType'
  <2>1. step \in Steps /\ status \in Statuses \cup {0}
    BY <1>2 DEF Steps
  <2> QED
    BY <2>1 DEF RequestType
<1>4. /\ new.status = status /\ new.step = step
      /\ new.route = r.route /\ new.cred = r.cred /\ new.who = r.who
      /\ new.user = r.user /\ new.todo = r.todo /\ new.copy = r.copy
      /\ new.pod = r.pod /\ new.event = r.event /\ new.did = r.did
      /\ new.late = r.late /\ new.barred = r.barred
  BY DEF RequestType
<1> HIDE DEF new
<1>5. req'[c] = new /\ \A d \in Clients : d # c => req'[d] = req[d]
  BY <1>1
<1>6. req' \in [Clients -> RequestType']
  BY <1>1, <1>3
<1> QED
  BY <1>4, <1>5, <1>6 DEF step

\* Continue moves on to another step.
LEMMA ContinueFacts ==
    ASSUME req \in [Clients -> RequestType], RequestType \subseteq RequestType',
           NEW c \in Clients, NEW r \in RequestType',
           NEW step \in Handling \cup {"account", "authorize"},
           Continue(c, r, step)
    PROVE  /\ req' \in [Clients -> RequestType']
           /\ \A d \in Clients : d # c => req'[d] = req[d]
           /\ req'[c].step = step
           /\ req'[c].route = r.route /\ req'[c].cred = r.cred /\ req'[c].who = r.who
           /\ req'[c].user = r.user /\ req'[c].todo = r.todo /\ req'[c].copy = r.copy
           /\ req'[c].pod = r.pod /\ req'[c].event = r.event /\ req'[c].did = r.did
           /\ req'[c].late = r.late /\ req'[c].barred = r.barred /\ req'[c].status = r.status
<1> DEFINE new == [r EXCEPT !.step = step]
<1>1. req' = [req EXCEPT ![c] = new]
  BY DEF Continue
<1>2. new \in RequestType'
  <2>1. step \in Steps
    BY DEF Handling, Steps
  <2> QED
    BY <2>1 DEF RequestType
<1>3. /\ new.step = step
      /\ new.route = r.route /\ new.cred = r.cred /\ new.who = r.who
      /\ new.user = r.user /\ new.todo = r.todo /\ new.copy = r.copy
      /\ new.pod = r.pod /\ new.event = r.event /\ new.did = r.did
      /\ new.late = r.late /\ new.barred = r.barred /\ new.status = r.status
  BY DEF RequestType
<1> HIDE DEF new
<1>4. req'[c] = new /\ \A d \in Clients : d # c => req'[d] = req[d]
  BY <1>1
<1>5. req' \in [Clients -> RequestType']
  BY <1>1, <1>2
<1> QED
  BY <1>3, <1>4, <1>5

\* The steps from which Respond is called.
Answering == Handling \cup {"authenticate", "account", "authorize"}

\* An answer is in order if the request may have had the effects that it is
\* answered with, and if the status tells the truth about them.
Truthful(c, status, D) ==
    /\ req[c].late => status \in {401, 503} /\ D = {}
    /\ settings.tenant => \A e \in D : e.tenant = req[c].who
    /\ Mode # "anonymous" => \A e \in D :
          Granted(c, e.verb, IF e.verb = "log" THEN e.tenant ELSE ScopeOf(c))
    /\ (status \in {200, 201} /\ req[c].route \in AuditOperations) =>
          {e.verb : e \in D} = Writes(c)
    /\ status \in 400..499 \cup {503} => D = {}
    /\ "log" \in {e.verb : e \in D} => req[c].pod # 0

\* A handler that answers truthfully about its effects keeps every invariant of its
\* request: the last call of a handler followed by Respond, or by the Audit middleware.
LEMMA AnsweredMoves ==
    ASSUME IInv, Grows, NEW c \in Clients, req[c].step \in Answering,
           NEW status \in Statuses, NEW D \in SUBSET Effects, Truthful(c, status, D),
           NEW r \in RequestType', Respond(c, r, status),
           r.route = req[c].route, r.cred = req[c].cred, r.who = req[c].who,
           r.user = req[c].user, r.copy = req[c].copy, r.pod = req[c].pod,
           r.event = req[c].event, r.did = D, r.late = req[c].late,
           r.barred = req[c].barred
    PROVE  Moved(c)
<1> USE DEF IInv
<1>1. RequestType \subseteq RequestType' /\ req[c] \in RequestType /\ RequestInv(c)
  BY TypeGrows
<1>2. /\ req' \in [Clients -> RequestType']
      /\ \A d \in Clients : d # c => req'[d] = req[d]
      /\ req'[c].status = status
      /\ req'[c].step = IF r.user /\ r.route \in AuditOperations THEN "audit" ELSE "done"
      /\ req'[c].route = r.route /\ req'[c].cred = r.cred /\ req'[c].who = r.who
      /\ req'[c].user = r.user /\ req'[c].todo = r.todo /\ req'[c].copy = r.copy
      /\ req'[c].pod = r.pod /\ req'[c].event = r.event /\ req'[c].did = r.did
      /\ req'[c].late = r.late /\ req'[c].barred = r.barred
  BY <1>1, RespondFacts
<1>3. /\ req'[c].route = req[c].route /\ req'[c].cred = req[c].cred /\ req'[c].who = req[c].who
      /\ req'[c].user = req[c].user /\ req'[c].copy = req[c].copy /\ req'[c].pod = req[c].pod
      /\ req'[c].event = req[c].event /\ req'[c].did = D /\ req'[c].late = req[c].late
      /\ req'[c].barred = req[c].barred
  BY <1>2
<1>4. /\ req'[c].step \in {"audit", "done"}
      /\ req'[c].step = "audit" <=> (req[c].user /\ req[c].route \in AuditOperations)
  BY <1>2
<1>5. /\ Mode' = Mode /\ Routes' = Routes
      /\ ScopeOf(c)' = ScopeOf(c) /\ Asked(c)' = Asked(c) /\ Writes(c)' = Writes(c)
  BY <1>3, ConfigStays, AskedStays
<1>6. req[c].step \notin {"idle", "audit", "done"}
  BY DEF Answering, Handling
<1> USE DEF RequestInv
<1>7. RouteFits(c)'
  BY <1>1, <1>3, <1>4, <1>5, <1>6 DEF RouteFits
<1>8. CopyFits(c)'
  <2>1. req[c].pod # 0 => req[c].pod \in DOMAIN born
    BY <1>1 DEF RequestType, ClusterFits
  <2> QED
    BY <1>1, <1>3, <1>4, <1>5, <2>1 DEF CopyFits, Genuine, Grows
<1>9. IdentityFits(c)' /\ LateRefused(c)'
  <2>1. IdentityFits(c)'
    BY <1>1, <1>3, <1>4, <1>5, <1>6 DEF IdentityFits, Handling
  <2>2. LateRefused(c)'
    <3> SUFFICES ASSUME req[c].late
                 PROVE  /\ Mode # "anonymous" /\ Void(c)' /\ ~req[c].user /\ D = {}
                        /\ status \in {401, 503}
      BY <1>2, <1>3, <1>4, <1>5 DEF LateRefused
    <3>1. Mode # "anonymous" /\ Void(c) /\ ~req[c].user /\ req[c].who \in Tenants
      BY <1>1, <1>6 DEF LateRefused, IdentityFits
    <3>2. Void(c)'
      BY <1>3, <3>1 DEF Void, Grows
    <3>3. status \in {401, 503} /\ D = {}
      BY DEF Truthful
    <3> QED
      BY <3>1, <3>2, <3>3
  <2> QED
    BY <2>1, <2>2
<1>10. TodoFits(c)' /\ Cleared(c)' /\ LogCleared(c)'
  BY <1>4 DEF TodoFits, Cleared, LogCleared, Handling
<1>11. VerbsOf(c)' = {e.verb : e \in D}
  BY <1>3 DEF VerbsOf
<1>12. EffectsFit(c)'
  BY <1>1, <1>2, <1>3, <1>4, <1>6, <1>11 DEF EffectsFit, Truthful, Statuses
<1>13. Apart(c)'
  BY <1>3 DEF Apart, Truthful, Grows
<1>14. Allowed(c)'
  BY <1>3, <1>5 DEF Allowed, Truthful, Granted, Permission
<1>15. Answers(c)'
  <2>1. req'[c].event = "none"
    BY <1>1, <1>3, <1>6 DEF EffectsFit
  <2>2. status \in 400..499 \cup {503} => VerbsOf(c)' = {}
    BY <1>11 DEF Truthful
  <2> QED
    BY <1>2, <1>3, <1>4, <1>5, <1>11, <2>1, <2>2 DEF Answers, Truthful
<1> QED
  BY <1>2, <1>7, <1>8, <1>9, <1>10, <1>12, <1>13, <1>14, <1>15 DEF Moved

\* An answer without a new effect.
LEMMA RefusalMoves ==
    ASSUME IInv, Grows, NEW c \in Clients, req[c].step \in Answering,
           NEW status \in Statuses \ {200, 201}, Respond(c, req[c], status),
           req[c].late => status \in {401, 503},
           status # 500 => req[c].did = {}
    PROVE  Moved(c)
<1>1. req[c] \in RequestType' /\ req[c].did \in SUBSET Effects /\ RequestInv(c)
  <2>1. req[c] \in RequestType /\ RequestInv(c)
    BY DEF IInv
  <2> QED
    BY <2>1, TypeGrows DEF IInv, RequestType
<1>2. PICK D \in SUBSET Effects : D = req[c].did
  BY <1>1
<1>3. Truthful(c, status, D)
  <2>1. req[c].late => D = {}
    BY <1>1, <1>2 DEF RequestInv, LateRefused
  <2>2. status \in 400..499 \cup {503} => status # 500
    OBVIOUS
  <2>3. "log" \in {e.verb : e \in D} => req[c].pod # 0
    BY <1>1, <1>2 DEF RequestInv, EffectsFit, VerbsOf
  <2> QED
    BY <1>1, <1>2, <2>1, <2>2, <2>3 DEF Truthful, RequestInv, Apart, Allowed
<1>4. PICK r \in RequestType' : r = req[c]
  BY <1>1
<1> QED
  BY <1>2, <1>3, <1>4, AnsweredMoves

\* An answer with new effects.
LEMMA EffectMoves ==
    ASSUME IInv, Grows, NEW c \in Clients, req[c].step \in Answering,
           NEW status \in Statuses, NEW D \in SUBSET Effects, Truthful(c, status, D),
           Respond(c, [req[c] EXCEPT !.did = D], status)
    PROVE  Moved(c)
<1> DEFINE r == [req[c] EXCEPT !.did = D]
<1>1. req[c] \in RequestType'
  <2>1. req[c] \in RequestType
    BY DEF IInv
  <2> QED
    BY <2>1, TypeGrows DEF IInv
<1>2. D \in SUBSET Effects'
  BY DEF Effects, Namespaces, Verbs
<1>3. r \in RequestType'
  BY <1>1, <1>2 DEF RequestType
<1>4. /\ r.route = req[c].route /\ r.cred = req[c].cred /\ r.who = req[c].who
      /\ r.user = req[c].user /\ r.copy = req[c].copy /\ r.pod = req[c].pod
      /\ r.event = req[c].event /\ r.did = D /\ r.late = req[c].late
      /\ r.barred = req[c].barred
  BY <1>1 DEF RequestType
<1>5. Respond(c, r, status)
  OBVIOUS
<1> HIDE DEF r
<1> QED
  BY <1>3, <1>4, <1>5, AnsweredMoves

\* A request that a handler works on has an identity where one is needed, its
\* route's permissions, and in tenant mode a scope, which is the requester.
LEMMA HandlingFacts ==
    ASSUME IInv, NEW c \in Clients, req[c].step \in Handling
    PROVE  /\ ~req[c].late
           /\ Mode # "anonymous" => \A i \in DOMAIN Asked(c) : Granted(c, Asked(c)[i], ScopeOf(c))
           /\ settings.tenant => ScopeOf(c) = req[c].who /\ ScopeOf(c) # Nobody
           /\ ScopeOf(c) \in Namespaces
           /\ req[c].step # "status" => req[c].did = {}
<1>1. RequestInv(c) /\ req[c].step \notin {"authorize", "idle", "audit", "done"}
  BY DEF IInv, Handling
<1>2. req[c].who \in Namespaces
  BY DEF IInv, RequestType
<1>3. ~req[c].late
  BY <1>1 DEF RequestInv, LateRefused, IdentityFits
<1>4. Mode # "anonymous" => \A i \in DOMAIN Asked(c) : Granted(c, Asked(c)[i], ScopeOf(c))
  BY <1>1 DEF RequestInv, Cleared
<1>5. settings.tenant => ScopeOf(c) = req[c].who /\ ScopeOf(c) # Nobody
  <2>1. settings.tenant => Mode = "tenant"
    BY ModeFacts DEF IInv
  <2>2. settings.tenant => req[c].who \in Tenants
    BY <1>1, <2>1 DEF RequestInv, IdentityFits
  <2> QED
    BY <2>1, <2>2, ApiConstants DEF ScopeOf, Scope
<1>6. ScopeOf(c) \in Namespaces
  BY <1>2 DEF ScopeOf, Scope, Namespaces
<1>7. req[c].step # "status" => req[c].did = {}
  BY <1>1 DEF RequestInv, EffectsFit
<1> QED
  BY <1>3, <1>4, <1>5, <1>6, <1>7

\* One effect that a permission of the route covers.
LEMMA OneEffect ==
    ASSUME IInv, NEW c \in Clients, req[c].step \in Handling,
           NEW verb \in Verbs \ {"log"}, NEW t \in Namespaces, NEW status \in {200, 201, 500},
           \E i \in DOMAIN Asked(c) : Asked(c)[i] = verb,
           settings.tenant => t = req[c].who,
           (status # 500 /\ req[c].route \in AuditOperations) => Writes(c) = {verb}
    PROVE  Truthful(c, status, {Effect(verb, t)}) /\ {Effect(verb, t)} \in SUBSET Effects
<1> DEFINE eff == Effect(verb, t)
<1>1. eff.verb = verb /\ eff.tenant = t /\ eff \in Effects
  BY DEF Effect, Effects
<1> HIDE DEF eff
<1>2. ~req[c].late /\ (Mode # "anonymous" => Granted(c, verb, ScopeOf(c)))
  BY HandlingFacts
<1>3. {e.verb : e \in {eff}} = {verb}
  BY <1>1
<1>4. Truthful(c, status, {eff})
  BY <1>1, <1>2, <1>3 DEF Truthful
<1> QED
  BY <1>1, <1>4 DEF eff

-----------------------------------------------------------------------------
(* Steps that go on.                                                       *)

\* The step left the other requests alone, and its own request goes on with
\* the same route, credential and requester and without an answer.
Onward(c) ==
    /\ req' \in [Clients -> RequestType']
    /\ \A d \in Clients : d # c => req'[d] = req[d]
    /\ req'[c].step \in Handling \cup {"account", "authorize"}
    /\ req'[c].route = req[c].route /\ req'[c].cred = req[c].cred
    /\ req'[c].who = req[c].who /\ req'[c].status = req[c].status
    /\ req'[c].event = req[c].event /\ req'[c].late = req[c].late
    /\ req'[c].barred = req[c].barred

\* What is left to show of such a step: where the request stands now, and that
\* a void credential got no further than to its account.
LEMMA OnwardMoves ==
    ASSUME IInv, Grows, NEW c \in Clients, req[c].step \in Answering, Onward(c),
           RouteFits(c)', CopyFits(c)', IdentityFits(c)',
           TodoFits(c)', Cleared(c)', LogCleared(c)',
           req[c].late => req'[c].step = "account" /\ accounts[req[c].who] # 1,
           req'[c].did = {}, req'[c].step # "status"
    PROVE  Moved(c)
<1>1. /\ req' \in [Clients -> RequestType']
      /\ \A d \in Clients : d # c => req'[d] = req[d]
      /\ req'[c].step \in Handling \cup {"account", "authorize"}
      /\ req'[c].cred = req[c].cred
      /\ req'[c].who = req[c].who /\ req'[c].status = req[c].status
      /\ req'[c].event = req[c].event /\ req'[c].late = req[c].late
  BY DEF Onward
<1>2. RequestInv(c) /\ req[c].step \notin {"idle", "audit", "done"}
  BY DEF IInv, Answering, Handling
<1>3. req[c].status = 0 /\ req[c].event = "none"
  BY <1>2 DEF RequestInv, EffectsFit
<1>4. LateRefused(c)'
  <2> SUFFICES ASSUME req[c].late
               PROVE  /\ Mode' # "anonymous" /\ Void(c)' /\ accounts'[req[c].who] # 1
                      /\ ~req'[c].user
    BY <1>1, <1>3 DEF LateRefused, Handling
  <2>1. Mode # "anonymous" /\ req[c].who \in Tenants
    BY <1>2 DEF RequestInv, LateRefused, IdentityFits
  <2>2. accounts'[req[c].who] # 1
    BY <2>1 DEF Grows
  <2>3. ~req'[c].user
    BY DEF IdentityFits
  <2> QED
    BY <1>1, <2>1, <2>2, <2>3, ConfigStays DEF Void
<1>5. VerbsOf(c)' = {}
  BY DEF VerbsOf
<1>6. req'[c].step \notin {"audit", "done"}
  BY <1>1 DEF Handling
<1>7. EffectsFit(c)' /\ Apart(c)' /\ Allowed(c)'
  <2>1. EffectsFit(c)'
    BY <1>1, <1>3, <1>5, <1>6 DEF EffectsFit
  <2>2. Apart(c)' /\ Allowed(c)'
    BY DEF Apart, Allowed
  <2> QED
    BY <2>1, <2>2
<1>8. Answers(c)'
  BY <1>1, <1>3, <1>6 DEF Answers
<1> QED
  BY <1>1, <1>4, <1>7, <1>8 DEF Moved, RequestInv

\* What a request has read stays true of it.
LEMMA CopyStays ==
    ASSUME IInv, Grows, NEW c \in Clients, Onward(c),
           req'[c].copy = req[c].copy, req'[c].pod = req[c].pod,
           req'[c].step \in {"update", "status", "pod"} => req[c].copy # NoObject,
           req'[c].step = "stream" => req[c].pod # 0
    PROVE  CopyFits(c)'
<1>1. req'[c].who = req[c].who /\ req'[c].route = req[c].route
  BY DEF Onward
<1>2. ScopeOf(c)' = ScopeOf(c)
  BY <1>1, AskedStays
<1>3. RequestInv(c) /\ req[c] \in RequestType
  BY DEF IInv
<1>4. req[c].pod # 0 => req[c].pod \in DOMAIN born
  BY <1>3 DEF RequestType, ClusterFits, IInv
<1> QED
  BY <1>2, <1>3, <1>4 DEF RequestInv, CopyFits, Genuine, Grows

\* Where a handler begins.
LEMMA FirstCallFacts ==
    ASSUME NEW r
    PROVE  /\ FirstCall(r) \in {"create", "list", "delete", "get"}
           /\ FirstCall(r) \in {"create", "list", "delete"} => r.route = FirstCall(r)
           /\ FirstCall(r) = "get" => r.route \notin {"create", "list"}
  BY DEF FirstCall

-----------------------------------------------------------------------------
(* Authentication.                                                         *)

\* A request that was let through has all its permissions to be asked for.
LEMMA AuthenticatedMoves ==
    ASSUME IInv, Grows, NEW c \in Clients, req[c].step \in {"authenticate", "account"},
           Authenticated(c, req[c]), ~req[c].late
    PROVE  Moved(c)
<1> DEFINE r == [req[c] EXCEPT !.user = TRUE]
<1>1. req[c] \in RequestType /\ RequestInv(c) /\ RequestType \subseteq RequestType'
  BY TypeGrows DEF IInv
<1>2. r \in RequestType'
  <2>1. req[c] \in RequestType'
    BY <1>1
  <2>2. ASSUME NEW b \in BOOLEAN PROVE [req[c] EXCEPT !.user = b] \in RequestType'
    BY <2>1 DEF RequestType
  <2> QED
    BY <2>2
<1>3. /\ r.route = req[c].route /\ r.cred = req[c].cred /\ r.who = req[c].who
      /\ r.todo = req[c].todo /\ r.copy = req[c].copy
      /\ r.pod = req[c].pod /\ r.event = req[c].event /\ r.did = req[c].did
      /\ r.late = req[c].late /\ r.barred = req[c].barred /\ r.status = req[c].status
  BY <1>1 DEF RequestType
<1>4. r.user
  BY <1>1, Zenon DEF RequestType
<1>5. Continue(c, r, "authorize")
  BY DEF Authenticated
<1> HIDE DEF r
<1>6. /\ Onward(c) /\ req'[c].step = "authorize" /\ req'[c].user = r.user
      /\ req'[c].todo = req[c].todo /\ req'[c].copy = req[c].copy
      /\ req'[c].pod = req[c].pod /\ req'[c].did = req[c].did
  BY <1>1, <1>2, <1>3, <1>5, ContinueFacts DEF Onward, IInv
<1>7. req[c].todo = Asked(c) /\ req[c].pod = 0 /\ req[c].did = {} /\ Mode # "anonymous"
  BY <1>1 DEF RequestInv, IdentityFits, EffectsFit
<1>8. Mode' = Mode /\ Routes' = Routes /\ Asked(c)' = Asked(c) /\ ScopeOf(c)' = ScopeOf(c)
  BY <1>6, ConfigStays, AskedStays DEF Onward
<1>9. req[c].route \in Routes /\ req[c].who \in Tenants
  BY <1>1, <1>7 DEF RequestInv, RouteFits, IdentityFits
<1>10. RouteFits(c)' /\ CopyFits(c)'
  BY <1>6, <1>7, <1>8, <1>9, CopyStays DEF RouteFits, Onward
<1>11. IdentityFits(c)'
  BY <1>4, <1>6, <1>7, <1>8, <1>9 DEF IdentityFits, Onward
<1>12. TodoFits(c)'
  BY <1>6, <1>7, <1>9, RoutePermissionsFacts DEF TodoFits, Asked, IInv
<1>13. Cleared(c)' /\ LogCleared(c)'
  BY <1>6, <1>7, <1>8 DEF Cleared, LogCleared
<1> QED
  BY <1>6, <1>7, <1>10, <1>11, <1>12, <1>13, OnwardMoves DEF Answering

\* Nothing in the cluster changes, as in most steps.
Quiet == UNCHANGED <<settings, kind, cluster>>

\* A step that touches only a request and a cache keeps the cluster well-formed and its
\* history.
LEMMA QuietGrows ==
    ASSUME IInv, Quiet
    PROVE  Grows /\ ClusterFits'
<1>1. UNCHANGED <<settings, kind, object, cache, born, accounts, keys, revoked, changes>>
  BY DEF Quiet, cluster
<1> QED
  BY <1>1, GrowsQuietly DEF IInv, ClusterFits, Genuine

\* Authentication (middleware/authentication.go): a token or a key is looked up, or
\* refused with 401.
LEMMA AuthenticateIInv ==
    ASSUME IInv, NEW c \in Clients, Authenticate(c)
    PROVE  IInv'
<1>1. Quiet /\ req[c].step = "authenticate" /\ req[c].step \in Answering
  BY DEF Authenticate, Quiet, Answering
<1>2. Grows /\ ClusterFits'
  BY <1>1, QuietGrows
<1>3. req[c] \in RequestType /\ RequestInv(c) /\ RequestType \subseteq RequestType'
  BY <1>2, TypeGrows DEF IInv
<1>4. req[c].did = {} /\ Mode # "anonymous"
  BY <1>1, <1>3 DEF RequestInv, EffectsFit, IdentityFits
<1>5. CASE \E status \in {401, 503} : Respond(c, req[c], status)
  BY <1>1, <1>2, <1>4, <1>5, RefusalMoves, MovedIInv DEF Statuses
<1>6. CASE req[c].cred = "token" /\ TokenReview(req[c].who) /\ Authenticated(c, req[c])
  <2>1. ~req[c].late
    BY <1>3, <1>6 DEF RequestInv, LateRefused, Void, TokenReview
  <2> QED
    BY <1>1, <1>2, <1>6, <2>1, AuthenticatedMoves, MovedIInv
<1>7. CASE req[c].cred = "key" /\ req[c].who \in keys /\ Continue(c, req[c], "account")
  <2>1. PICK r \in RequestType' : r = req[c]
    BY <1>3
  <2>2. /\ Onward(c) /\ req'[c].step = "account" /\ req'[c].user = req[c].user
        /\ req'[c].todo = req[c].todo /\ req'[c].copy = req[c].copy
        /\ req'[c].pod = req[c].pod /\ req'[c].did = req[c].did
    BY <1>3, <1>7, <2>1, ContinueFacts DEF Onward, IInv
  <2>3. Mode' = Mode /\ Routes' = Routes /\ Asked(c)' = Asked(c)
    BY <1>2, <2>2, ConfigStays, AskedStays DEF Onward
  <2>4. RouteFits(c)' /\ IdentityFits(c)'
    BY <1>1, <1>3, <1>4, <1>7, <2>2, <2>3 DEF RequestInv, RouteFits, IdentityFits, Onward, Handling
  <2>5. CopyFits(c)'
    BY <1>2, <2>2, CopyStays
  <2>6. TodoFits(c)' /\ Cleared(c)' /\ LogCleared(c)'
    BY <2>2 DEF TodoFits, Cleared, LogCleared, Handling
  <2>7. req[c].late => accounts[req[c].who] # 1
    BY <1>3, <1>7 DEF RequestInv, LateRefused, Void
  <2> QED
    BY <1>1, <1>2, <1>4, <2>2, <2>4, <2>5, <2>6, <2>7, OnwardMoves, MovedIInv
<1> QED
  BY <1>5, <1>6, <1>7 DEF Authenticate

\* The second half of API-key authentication: the account that the binding names is read
\* and its UID compared.
LEMMA AuthenticateBindingIInv ==
    ASSUME IInv, NEW c \in Clients, AuthenticateBinding(c)
    PROVE  IInv'
<1>1. Quiet /\ req[c].step = "account" /\ req[c].step \in Answering
  BY DEF AuthenticateBinding, Quiet, Answering
<1>2. Grows /\ ClusterFits'
  BY <1>1, QuietGrows
<1>3. RequestInv(c)
  BY DEF IInv
<1>4. req[c].did = {}
  BY <1>1, <1>3 DEF RequestInv, EffectsFit
<1>5. CASE \E status \in {401, 503} : Respond(c, req[c], status)
  BY <1>1, <1>2, <1>4, <1>5, RefusalMoves, MovedIInv DEF Statuses
<1>6. CASE BoundAccount(req[c].who) /\ Authenticated(c, req[c])
  <2>1. ~req[c].late
    BY <1>1, <1>3, <1>6 DEF RequestInv, LateRefused, BoundAccount
  <2> QED
    BY <1>1, <1>2, <1>6, <2>1, AuthenticatedMoves, MovedIInv
<1> QED
  BY <1>5, <1>6 DEF AuthenticateBinding

-----------------------------------------------------------------------------
(* Authorization.                                                          *)

\* The reviews that remain after the first one are the old ones, one place further on.
LEMMA TailElement ==
    ASSUME NEW S, NEW s \in Seq(S), NEW j \in DOMAIN s, j # 1
    PROVE  j - 1 \in DOMAIN Tail(s) /\ Tail(s)[j - 1] = s[j]
<1>1. j \in 2..Len(s) /\ s # <<>>
  OBVIOUS
<1>2. Len(Tail(s)) = Len(s) - 1
  BY <1>1
<1> QED
  BY <1>1, <1>2

\* The permission at the head of the list is granted, and the rest is left.
LEMMA GrantedMoves ==
    ASSUME IInv, Quiet, Grows, NEW c \in Clients, req[c].step = "authorize",
           Permission(req[c], Head(req[c].todo), NamespaceAsked(req[c])) \notin revoked,
           NEW step, step = IF Tail(req[c].todo) # <<>> THEN "authorize"
                            ELSE IF req[c].pod # 0 THEN "stream" ELSE FirstCall(req[c]),
           Continue(c, [req[c] EXCEPT !.todo = Tail(@)], step)
    PROVE  Moved(c)
<1> DEFINE r == [req[c] EXCEPT !.todo = Tail(@)]
<1>1. req[c] \in RequestType /\ RequestInv(c) /\ RequestType \subseteq RequestType'
  BY TypeGrows DEF IInv
<1>2. req[c].todo \in Seq(Verbs) /\ req[c].todo # <<>>
  BY <1>1 DEF RequestType, RequestInv, TodoFits
<1>3. PICK todo \in Seq(Verbs) : todo = req[c].todo
  BY <1>2
<1>4. Tail(todo) \in Seq(Verbs) /\ todo # <<>>
  BY <1>2, <1>3
<1>5. r \in RequestType'
  <2>1. req[c] \in RequestType' /\ r = [req[c] EXCEPT !.todo = Tail(todo)]
    BY <1>1, <1>3
  <2> QED
    BY <2>1, <1>4 DEF RequestType, Verbs
<1>6. /\ r.route = req[c].route /\ r.cred = req[c].cred /\ r.who = req[c].who
      /\ r.user = req[c].user /\ r.todo = Tail(todo) /\ r.copy = req[c].copy
      /\ r.pod = req[c].pod /\ r.event = req[c].event /\ r.did = req[c].did
      /\ r.late = req[c].late /\ r.barred = req[c].barred /\ r.status = req[c].status
  BY <1>1, <1>3 DEF RequestType
<1> HIDE DEF r
<1>7. /\ FirstCall(req[c]) \in {"create", "list", "delete", "get"}
      /\ FirstCall(req[c]) \in {"create", "list", "delete"} => req[c].route = FirstCall(req[c])
      /\ FirstCall(req[c]) = "get" => req[c].route \notin {"create", "list"}
  BY FirstCallFacts
<1>8. /\ step \in {"authorize", "stream", "create", "list", "delete", "get"}
      /\ step = "authorize" <=> Tail(todo) # <<>>
      /\ step = "stream" => req[c].pod # 0
      /\ step \in {"create", "list", "delete", "get"} => step = FirstCall(req[c]) /\ req[c].pod = 0
  BY <1>3, <1>7
<1>9. Continue(c, r, step)
  BY DEF r
<1>10. /\ Onward(c) /\ req'[c].step = step /\ req'[c].user = req[c].user
       /\ req'[c].todo = Tail(todo) /\ req'[c].copy = req[c].copy
       /\ req'[c].pod = req[c].pod /\ req'[c].did = req[c].did
  <2>1. step \in Handling \cup {"account", "authorize"}
    BY <1>8 DEF Handling
  <2>2. req \in [Clients -> RequestType]
    BY DEF IInv
  <2>3. /\ req' \in [Clients -> RequestType']
        /\ \A d \in Clients : d # c => req'[d] = req[d]
        /\ req'[c].step = step
        /\ req'[c].route = r.route /\ req'[c].cred = r.cred /\ req'[c].who = r.who
        /\ req'[c].user = r.user /\ req'[c].todo = r.todo /\ req'[c].copy = r.copy
        /\ req'[c].pod = r.pod /\ req'[c].event = r.event /\ req'[c].did = r.did
        /\ req'[c].late = r.late /\ req'[c].barred = r.barred /\ req'[c].status = r.status
    BY <1>1, <1>5, <1>9, <2>1, <2>2, ContinueFacts, ZenonT(30)
  <2> QED
    BY <1>6, <2>1, <2>3 DEF Onward
<1>11. /\ Mode # "anonymous" /\ req[c].user /\ req[c].did = {} /\ ~req[c].late
       /\ req[c].route \in Routes /\ req[c].who \in Tenants
       /\ req[c].pod # 0 => todo = <<"log">> /\ req[c].route = "logs"
       /\ req[c].pod = 0 => \A j \in DOMAIN todo : todo[j] # "log"
  <2>1. Mode # "anonymous" /\ req[c].user /\ req[c].did = {}
    BY <1>1 DEF RequestInv, IdentityFits, EffectsFit
  <2>2. ~req[c].late
    BY <1>1, <2>1 DEF RequestInv, LateRefused
  <2>3. req[c].route \in Routes /\ req[c].who \in Tenants
    BY <1>1, <2>1 DEF RequestInv, RouteFits, IdentityFits
  <2> QED
    BY <1>1, <1>3, <2>1, <2>2, <2>3 DEF RequestInv, TodoFits, RouteFits
<1>12. Mode' = Mode /\ Routes' = Routes /\ Asked(c)' = Asked(c) /\ ScopeOf(c)' = ScopeOf(c)
  BY <1>10, ConfigStays, AskedStays DEF Onward
<1>13. RouteFits(c)'
  BY <1>7, <1>8, <1>10, <1>11, <1>12 DEF RouteFits, Onward
<1>14. CopyFits(c)'
  BY <1>8, <1>10, CopyStays
<1>15. IdentityFits(c)'
  BY <1>8, <1>10, <1>11, <1>12 DEF IdentityFits, Onward
<1>16. TodoFits(c)'
  <2>1. \A j \in DOMAIN Tail(todo) : j + 1 \in DOMAIN todo /\ Tail(todo)[j] = todo[j + 1]
    BY <1>4
  <2>2. Tail(todo) # <<>> => req[c].pod = 0
    <3>1. todo = <<"log">> => Tail(todo) = <<>>
      OBVIOUS
    <3> QED
      BY <1>11, <3>1
  <2> QED
    BY <1>8, <1>10, <1>11, <2>1, <2>2 DEF TodoFits
<1>17. Granted(c, Head(todo), NamespaceAsked(req[c]))
  BY <1>1, <1>3 DEF Granted, RequestType
<1>18. Cleared(c)'
  <2> SUFFICES ASSUME NEW i \in DOMAIN Asked(c)
               PROVE  \/ Granted(c, Asked(c)[i], ScopeOf(c))
                      \/ /\ step = "authorize" /\ req[c].pod = 0
                         /\ \E j \in DOMAIN Tail(todo) : Tail(todo)[j] = Asked(c)[i]
    BY <1>10, <1>12 DEF Cleared, Granted, Permission, Onward
  <2>1. \/ Granted(c, Asked(c)[i], ScopeOf(c))
        \/ req[c].pod = 0 /\ \E j \in DOMAIN todo : todo[j] = Asked(c)[i]
    BY <1>1, <1>3, <1>11 DEF RequestInv, Cleared
  <2>2. CASE Granted(c, Asked(c)[i], ScopeOf(c))
    BY <2>2
  <2>3. ASSUME req[c].pod = 0, NEW j \in DOMAIN todo, todo[j] = Asked(c)[i]
        PROVE  \/ Granted(c, Asked(c)[i], ScopeOf(c))
               \/ /\ step = "authorize" /\ req[c].pod = 0
                  /\ \E k \in DOMAIN Tail(todo) : Tail(todo)[k] = Asked(c)[i]
    <3>1. CASE j = 1
      <4>1. Head(todo) = Asked(c)[i] /\ Head(todo) # "log"
        BY <1>4, <1>11, <2>3, <3>1
      <4>2. NamespaceAsked(req[c]) = ScopeOf(c)
        BY <1>3, <4>1 DEF NamespaceAsked, ScopeOf
      <4> QED
        BY <1>17, <4>1, <4>2
    <3>2. CASE j # 1
      <4>1. j - 1 \in DOMAIN Tail(todo) /\ Tail(todo)[j - 1] = todo[j]
        BY <3>2, TailElement
      <4>2. Tail(todo) # <<>>
        BY <4>1
      <4> QED
        BY <1>8, <2>3, <4>1, <4>2
    <3> QED
      BY <3>1, <3>2
  <2> QED
    BY <2>1, <2>2, <2>3
<1>19. LogCleared(c)'
  <2> SUFFICES ASSUME step = "stream" PROVE Granted(c, "log", born[req[c].pod])
    <3>1. born' = born
      BY DEF Quiet, cluster
    <3> QED
      BY <1>10, <3>1 DEF LogCleared, Granted, Permission, Onward
  <2>1. Head(todo) = "log"
    BY <1>8, <1>11
  <2> QED
    BY <1>3, <1>17, <2>1 DEF NamespaceAsked
<1> QED
  BY <1>8, <1>10, <1>11, <1>13, <1>14, <1>15, <1>16, <1>18, <1>19, OnwardMoves DEF Answering

\* Authorization (middleware/authorization.go): one review per step, denial or the
\* handler in the end.
LEMMA AuthorizeIInv ==
    ASSUME IInv, NEW c \in Clients, Authorize(c)
    PROVE  IInv'
<1>1. Quiet /\ req[c].step = "authorize" /\ req[c].step \in Answering
  BY DEF Authorize, Quiet, Answering
<1>2. Grows /\ ClusterFits'
  BY <1>1, QuietGrows
<1>3. RequestInv(c) /\ req[c] \in RequestType
  BY DEF IInv
<1>4. req[c].did = {} /\ ~req[c].late
  BY <1>1, <1>3 DEF RequestInv, EffectsFit, LateRefused, IdentityFits
<1>5. CASE \E status \in {403, 503} : Respond(c, req[c], status)
  BY <1>1, <1>2, <1>4, <1>5, RefusalMoves, MovedIInv DEF Statuses
<1>6. CASE /\ Permission(req[c], Head(req[c].todo), NamespaceAsked(req[c])) \notin revoked
           /\ Continue(c, [req[c] EXCEPT !.todo = Tail(@)],
                       IF [req[c] EXCEPT !.todo = Tail(@)].todo # <<>> THEN "authorize"
                       ELSE IF req[c].pod # 0 THEN "stream" ELSE FirstCall(req[c]))
  <2>1. [req[c] EXCEPT !.todo = Tail(@)].todo = Tail(req[c].todo)
    BY <1>3 DEF RequestType
  <2>2. Moved(c)
    BY <1>1, <1>2, <1>6, <2>1, GrantedMoves
  <2> QED
    BY <1>2, <2>2, MovedIInv
<1> QED
  BY <1>5, <1>6 DEF Authorize

-----------------------------------------------------------------------------
(* Handlers.                                                               *)

\* Within a handler a request keeps its identity and its permissions.
LEMMA HandlerKeeps ==
    ASSUME IInv, Grows, NEW c \in Clients, req[c].step \in Handling, Onward(c),
           req'[c].step \in Handling, req'[c].user = req[c].user,
           req'[c].step = "stream" => Mode = "anonymous"
    PROVE  IdentityFits(c)' /\ TodoFits(c)' /\ Cleared(c)' /\ LogCleared(c)'
<1>1. RequestInv(c) /\ req[c].step \notin {"idle", "authorize"}
  BY DEF IInv, Handling
<1>2. req'[c].step \notin {"idle", "authenticate", "account", "authorize", "audit", "done"}
  BY DEF Handling
<1>3. Mode' = Mode /\ Asked(c)' = Asked(c) /\ ScopeOf(c)' = ScopeOf(c)
  BY ConfigStays, AskedStays DEF Onward
<1>4. IdentityFits(c)'
  BY <1>1, <1>2, <1>3 DEF RequestInv, IdentityFits, Onward
<1>5. TodoFits(c)' /\ LogCleared(c)'
  BY <1>2, <1>3 DEF TodoFits, LogCleared
<1>6. Cleared(c)'
  <2>1. Mode # "anonymous" => \A i \in DOMAIN Asked(c) : Granted(c, Asked(c)[i], ScopeOf(c))
    BY HandlingFacts
  <2> QED
    BY <1>3, <2>1 DEF Cleared, Granted, Permission, Onward
<1> QED
  BY <1>4, <1>5, <1>6

\* A handler that goes on to its next call without an effect so far keeps the invariants
\* of its request.
LEMMA HandlerMoves ==
    ASSUME IInv, Grows, NEW c \in Clients, req[c].step \in Handling, Onward(c),
           req'[c].step \in Handling \ {"status"}, req'[c].user = req[c].user,
           req'[c].step = "stream" => Mode = "anonymous",
           req'[c].did = {}, RouteFits(c)', CopyFits(c)'
    PROVE  Moved(c)
<1>1. ~req[c].late
  BY HandlingFacts
<1>2. req[c].step \in Answering
  BY DEF Answering
<1> QED
  BY <1>1, <1>2, HandlerKeeps, OnwardMoves

\* A handler fails.
LEMMA HandlerRefuses ==
    ASSUME IInv, Grows, NEW c \in Clients, req[c].step \in Handling \ {"status"},
           NEW status \in {400, 404, 409, 500}, Respond(c, req[c], status)
    PROVE  Moved(c)
<1>1. ~req[c].late /\ req[c].did = {}
  BY HandlingFacts
<1>2. req[c].step \in Answering /\ status \in Statuses \ {200, 201}
  BY DEF Answering, Statuses
<1> QED
  BY <1>1, <1>2, RefusalMoves

\* An object that a request may see is of its tenant.
LEMMA VisibleFacts ==
    ASSUME IInv, NEW c \in Clients, req[c].step \in Handling, NEW obj, Visible(obj, req[c])
    PROVE  /\ obj # NoObject
           /\ ScopeOf(c) # Nobody => obj.tenant = ScopeOf(c)
           /\ settings.tenant => obj.tenant = req[c].who
  BY HandlingFacts DEF Visible, ScopeOf

\* The handler goes on with what it has read.
LEMMA ReadMoves ==
    ASSUME IInv, Grows, NEW c \in Clients, req[c].step = "get", Visible(cache, req[c]),
           NEW step \in {"pod", "delete", "update"},
           step = "pod" => req[c].route = "logs",
           step = "delete" => req[c].route = "delete",
           step = "update" => req[c].route \in {"update", "trigger", "suspend"},
           Continue(c, [req[c] EXCEPT !.copy = cache], step)
    PROVE  Moved(c)
<1> DEFINE r == [req[c] EXCEPT !.copy = cache]
<1>1. req[c] \in RequestType /\ RequestInv(c) /\ RequestType \subseteq RequestType'
  BY TypeGrows DEF IInv
<1>2. cache \in Objects'
  BY DEF IInv, ClusterFits, Objects, Namespaces
<1>3. r \in RequestType'
  <2>1. req[c] \in RequestType'
    BY <1>1
  <2> QED
    BY <2>1, <1>2 DEF RequestType
<1>4. /\ r.route = req[c].route /\ r.cred = req[c].cred /\ r.who = req[c].who
      /\ r.user = req[c].user /\ r.todo = req[c].todo /\ r.copy = cache
      /\ r.pod = req[c].pod /\ r.event = req[c].event /\ r.did = req[c].did
      /\ r.late = req[c].late /\ r.barred = req[c].barred /\ r.status = req[c].status
  BY <1>1 DEF RequestType
<1>5. Continue(c, r, step)
  OBVIOUS
<1> HIDE DEF r
<1>6. step \in Handling /\ step \in Handling \cup {"account", "authorize"}
  BY DEF Handling
<1>7. /\ req' \in [Clients -> RequestType']
      /\ \A d \in Clients : d # c => req'[d] = req[d]
      /\ req'[c].step = step
      /\ req'[c].route = r.route /\ req'[c].cred = r.cred /\ req'[c].who = r.who
      /\ req'[c].user = r.user /\ req'[c].todo = r.todo /\ req'[c].copy = r.copy
      /\ req'[c].pod = r.pod /\ req'[c].event = r.event /\ req'[c].did = r.did
      /\ req'[c].late = r.late /\ req'[c].barred = r.barred /\ req'[c].status = r.status
  <2>1. req \in [Clients -> RequestType]
    BY DEF IInv
  <2> QED
    BY <1>1, <1>3, <1>5, <1>6, <2>1, ContinueFacts, ZenonT(30)
<1>8. /\ Onward(c) /\ req'[c].step = step /\ req'[c].user = req[c].user
      /\ req'[c].copy = cache /\ req'[c].pod = req[c].pod /\ req'[c].did = req[c].did
  BY <1>4, <1>6, <1>7 DEF Onward
<1>9. req[c].did = {} /\ req[c].pod = 0 /\ req[c].route \in Routes
  <2>1. req[c].did = {} /\ req[c].route \in Routes
    BY <1>1 DEF RequestInv, EffectsFit, RouteFits
  <2>2. req[c].pod = 0
    BY <1>1 DEF RequestInv, RouteFits
  <2> QED
    BY <2>1, <2>2
<1>10. Routes' = Routes /\ ScopeOf(c)' = ScopeOf(c)
  BY <1>8, ConfigStays, AskedStays DEF Onward
<1>11. RouteFits(c)'
  BY <1>8, <1>9, <1>10 DEF RouteFits, Onward
<1>12. CopyFits(c)'
  <2>1. cache # NoObject /\ (ScopeOf(c) # Nobody => cache.tenant = ScopeOf(c))
    BY VisibleFacts DEF Handling
  <2>2. Genuine(cache)
    BY DEF IInv, ClusterFits
  <2>3. cache.uid \in DOMAIN born' /\ cache.tenant = born'[cache.uid]
    BY <2>1, <2>2 DEF Genuine, Grows
  <2> QED
    BY <1>8, <1>9, <1>10, <2>1, <2>3 DEF CopyFits, Genuine
<1> QED
  BY <1>6, <1>8, <1>9, <1>11, <1>12, HandlerMoves DEF Handling

\* A handler answers after one call, with its effect.
LEMMA OneEffectMoves ==
    ASSUME IInv, Grows, NEW c \in Clients, req[c].step \in Handling,
           NEW verb \in Verbs \ {"log"}, NEW t \in Namespaces, NEW status \in {200, 201, 500},
           \E i \in DOMAIN Asked(c) : Asked(c)[i] = verb,
           settings.tenant => t = req[c].who,
           (status # 500 /\ req[c].route \in AuditOperations) => Writes(c) = {verb},
           Respond(c, [req[c] EXCEPT !.did = {Effect(verb, t)}], status)
    PROVE  Moved(c)
<1> DEFINE D == {Effect(verb, t)}
<1>1. Truthful(c, status, D) /\ D \in SUBSET Effects
  BY OneEffect
<1>2. Respond(c, [req[c] EXCEPT !.did = D], status)
  OBVIOUS
<1> HIDE DEF D
<1>3. req[c].step \in Answering /\ status \in Statuses
  BY DEF Answering, Statuses
<1> QED
  BY <1>1, <1>2, <1>3, EffectMoves

\* getTenantObject: the read from the cache that checks the tenant label.
LEMMA GetTenantObjectIInv ==
    ASSUME IInv, NEW c \in Clients, GetTenantObject(c)
    PROVE  IInv'
<1>1. Quiet /\ req[c].step = "get" /\ req[c].step \in Handling \ {"status"}
  BY DEF GetTenantObject, Quiet, Handling
<1>2. Grows /\ ClusterFits'
  BY <1>1, QuietGrows
<1>3. req[c].route \in {"get", "update", "delete", "trigger", "suspend", "logs"}
  BY <1>1 DEF IInv, RequestInv, RouteFits, Routes
<1>4. \/ \E status \in {400, 404, 500} : Respond(c, req[c], status)
      \/ /\ Visible(cache, req[c]) /\ req[c].route = "get"
         /\ Respond(c, [req[c] EXCEPT !.did = {Effect("get", cache.tenant)}], 200)
      \/ /\ Visible(cache, req[c])
         /\ \E step \in {"pod", "delete", "update"} :
              /\ step = "pod" => req[c].route = "logs"
              /\ step = "delete" => req[c].route = "delete"
              /\ step = "update" => req[c].route \in {"update", "trigger", "suspend"}
              /\ Continue(c, [req[c] EXCEPT !.copy = cache], step)
  <2> DEFINE read == [req[c] EXCEPT !.copy = cache]
             seen == Respond(c, [req[c] EXCEPT !.did = {Effect("get", cache.tenant)}], 200)
  <2>1. \/ Respond(c, req[c], 400) \/ Respond(c, req[c], 404) \/ Respond(c, req[c], 500)
        \/ /\ Visible(cache, req[c])
           /\ CASE req[c].route = "get" -> seen
                [] req[c].route = "logs" -> Continue(c, read, "pod")
                [] req[c].route = "delete" -> Continue(c, read, "delete")
                [] OTHER -> Continue(c, read, "update")
    BY Zenon DEF GetTenantObject
  <2> HIDE DEF read, seen
  <2>2. ASSUME CASE req[c].route = "get" -> seen
                 [] req[c].route = "logs" -> Continue(c, read, "pod")
                 [] req[c].route = "delete" -> Continue(c, read, "delete")
                 [] OTHER -> Continue(c, read, "update")
        PROVE  /\ req[c].route = "get" => seen
               /\ req[c].route = "logs" => Continue(c, read, "pod")
               /\ req[c].route = "delete" => Continue(c, read, "delete")
               /\ req[c].route \notin {"get", "logs", "delete"} => Continue(c, read, "update")
    BY <2>2, Zenon
  <2> QED
    BY <1>3, <2>1, <2>2 DEF read, seen
<1>5. CASE \E status \in {400, 404, 500} : Respond(c, req[c], status)
  BY <1>1, <1>2, <1>5, HandlerRefuses, MovedIInv
<1>6. CASE /\ Visible(cache, req[c]) /\ req[c].route = "get"
           /\ Respond(c, [req[c] EXCEPT !.did = {Effect("get", cache.tenant)}], 200)
  <2>1. PICK t \in Namespaces : t = cache.tenant
    BY DEF IInv, ClusterFits, Objects
  <2>2. settings.tenant => t = req[c].who
    BY <1>1, <1>6, <2>1, VisibleFacts
  <2>3. \E i \in DOMAIN Asked(c) : Asked(c)[i] = "get"
    BY <1>6, RoutePermissionsCover DEF Asked, IInv
  <2>4. "get" \in Verbs \ {"log"} /\ req[c].route \notin AuditOperations
    BY <1>6 DEF Verbs, AuditOperations
  <2>5. Respond(c, [req[c] EXCEPT !.did = {Effect("get", t)}], 200)
    BY <1>6, <2>1
  <2>6. Moved(c)
    BY <1>1, <1>2, <2>2, <2>3, <2>4, <2>5, OneEffectMoves
  <2> QED
    BY <1>2, <2>6, MovedIInv
<1>7. CASE /\ Visible(cache, req[c])
           /\ \E step \in {"pod", "delete", "update"} :
                /\ step = "pod" => req[c].route = "logs"
                /\ step = "delete" => req[c].route = "delete"
                /\ step = "update" => req[c].route \in {"update", "trigger", "suspend"}
                /\ Continue(c, [req[c] EXCEPT !.copy = cache], step)
  BY <1>1, <1>2, <1>7, ReadMoves, MovedIInv
<1> QED
  BY <1>4, <1>5, <1>6, <1>7

\* The list of Tasks or Workflows, filtered by the tenant label.
LEMMA ListIInv ==
    ASSUME IInv, NEW c \in Clients, List(c)
    PROVE  IInv'
<1>1. Quiet /\ req[c].step = "list" /\ req[c].step \in Handling \ {"status"}
  BY DEF List, Quiet, Handling
<1>2. Grows /\ ClusterFits'
  BY <1>1, QuietGrows
<1>3. req[c].route = "list"
  BY <1>1 DEF IInv, RequestInv, RouteFits
<1>4. CASE Respond(c, req[c], 500)
  BY <1>1, <1>2, <1>4, HandlerRefuses, MovedIInv
<1>5. CASE Visible(cache, req[c]) /\ Respond(c, [req[c] EXCEPT !.did = {Effect("list", cache.tenant)}], 200)
  <2>1. PICK t \in Namespaces : t = cache.tenant
    BY DEF IInv, ClusterFits, Objects
  <2>2. settings.tenant => t = req[c].who
    BY <1>1, <1>5, <2>1, VisibleFacts
  <2>3. \E i \in DOMAIN Asked(c) : Asked(c)[i] = "list"
    BY <1>3, RoutePermissionsCover DEF Asked, IInv
  <2>4. "list" \in Verbs \ {"log"} /\ req[c].route \notin AuditOperations
    BY <1>3 DEF Verbs, AuditOperations
  <2>5. Respond(c, [req[c] EXCEPT !.did = {Effect("list", t)}], 200)
    BY <1>5, <2>1
  <2>6. Moved(c)
    BY <1>1, <1>2, <2>2, <2>3, <2>4, <2>5, OneEffectMoves
  <2> QED
    BY <1>2, <2>6, MovedIInv
<1>6. CASE Respond(c, [req[c] EXCEPT !.did = {}], 200)
  <2>1. PICK D \in SUBSET Effects : D = {}
    OBVIOUS
  <2>2. ~req[c].late /\ req[c].route \notin AuditOperations
    BY <1>1, <1>3, HandlingFacts DEF AuditOperations
  <2>3. Truthful(c, 200, D)
    BY <2>1, <2>2 DEF Truthful
  <2>4. 200 \in Statuses /\ req[c].step \in Answering
    BY <1>1 DEF Answering, Statuses
  <2>5. Respond(c, [req[c] EXCEPT !.did = D], 200)
    BY <1>6, <2>1
  <2>6. Moved(c)
    BY <1>2, <2>3, <2>4, <2>5, EffectMoves
  <2> QED
    BY <1>2, <2>6, MovedIInv
<1> QED
  BY <1>4, <1>5, <1>6 DEF List

\* A write leaves the cluster in order if what it stores is genuine.
LEMMA StoredFits ==
    ASSUME IInv, Grows, UNCHANGED <<cache, accounts, keys>>, object' \in Objects,
           \/ object' = NoObject
           \/ object'.uid \in DOMAIN born' /\ object'.tenant = born'[object'.uid]
    PROVE  ClusterFits'
<1>1. Objects' = Objects /\ Namespaces' = Namespaces
  BY DEF Objects, Namespaces
<1>2. Genuine(cache)'
  BY DEF IInv, ClusterFits, Genuine, Grows
<1> QED
  BY <1>1, <1>2 DEF IInv, ClusterFits, Genuine, Grows

\* A new object has the UID and the label that the API server keeps for it.
LEMMA BornFits ==
    ASSUME IInv, UNCHANGED <<settings, kind, cache, accounts, keys, revoked>>,
           NEW t \in Namespaces,
           object' = [uid |-> Len(born) + 1, rev |-> 1, tenant |-> t],
           born' = Append(born, t)
    PROVE  Grows /\ ClusterFits'
<1>1. Grows /\ Len(born) + 1 \in DOMAIN born' /\ born'[Len(born) + 1] = t
  BY GrowsByOne DEF IInv
<1>2. object' \in Objects /\ object'.uid = Len(born) + 1 /\ object'.tenant = t
  BY DEF IInv, ClusterFits, Objects
<1> QED
  BY <1>1, <1>2, StoredFits

\* Create, with the tenant label that prepareTenantCreate puts on the object.
LEMMA CreateIInv ==
    ASSUME IInv, NEW c \in Clients, Create(c)
    PROVE  IInv'
<1>1. req[c].step = "create" /\ req[c].step \in Handling \ {"status"} /\ UNCHANGED <<settings, kind>>
  BY DEF Create, Handling
<1>2. req[c].route = "create"
  BY <1>1 DEF IInv, RequestInv, RouteFits
<1>3. CASE UNCHANGED cluster /\ \E status \in {400, 409, 500} : Respond(c, req[c], status)
  <2>1. Grows /\ ClusterFits'
    BY <1>1, <1>3, QuietGrows DEF Quiet
  <2> QED
    BY <1>1, <1>3, <2>1, HandlerRefuses, MovedIInv
<1>4. ASSUME Born(ScopeOf(c)), NEW status \in {201, 500},
             Respond(c, [req[c] EXCEPT !.did = {Effect("create", ScopeOf(c))}], status)
      PROVE  IInv'
  <2>1. PICK t \in Namespaces : t = ScopeOf(c)
    BY <1>1, HandlingFacts
  <2>2. Grows /\ ClusterFits'
    BY <1>1, <1>4, <2>1, BornFits DEF Born
  <2>3. settings.tenant => t = req[c].who
    BY <1>1, <2>1, HandlingFacts
  <2>4. (\E i \in DOMAIN Asked(c) : Asked(c)[i] = "create") /\ Writes(c) = {"create"}
    BY <1>2, RoutePermissionsCover DEF Asked, Writes, IInv
  <2>5. "create" \in Verbs \ {"log"}
    BY DEF Verbs
  <2>6. Respond(c, [req[c] EXCEPT !.did = {Effect("create", t)}], status)
    BY <1>4, <2>1
  <2>7. Moved(c)
    BY <1>1, <2>2, <2>3, <2>4, <2>5, <2>6, OneEffectMoves
  <2> QED
    BY <2>2, <2>7, MovedIInv
<1> QED
  BY <1>3, <1>4 DEF Create, PrepareTenantCreate, ScopeOf

\* The API server takes a write only of the object that was read.
LEMMA WritableFacts ==
    ASSUME IInv, NEW c \in Clients, req[c].step \in {"update", "status"}, Writable(req[c])
    PROVE  /\ object.uid \in DOMAIN born /\ object.tenant = born[object.uid]
           /\ req[c].copy.tenant = object.tenant
           /\ settings.tenant => object.tenant = req[c].who
<1>1. /\ req[c].copy # NoObject /\ Genuine(req[c].copy)
      /\ ScopeOf(c) # Nobody => req[c].copy.tenant = ScopeOf(c)
  BY DEF IInv, RequestInv, CopyFits
<1>2. req[c].copy.uid \in DOMAIN born /\ req[c].copy.tenant = born[req[c].copy.uid]
  BY <1>1 DEF Genuine
<1>3. object.uid = req[c].copy.uid
  BY DEF Writable
<1>4. object # NoObject
  <2>1. object.uid # 0
    BY <1>2, <1>3 DEF IInv, ClusterFits
  <2> QED
    BY <2>1 DEF NoObject
<1>5. object.tenant = born[object.uid]
  BY <1>4 DEF IInv, ClusterFits, Genuine
<1>6. settings.tenant => ScopeOf(c) = req[c].who /\ ScopeOf(c) # Nobody
  BY HandlingFacts DEF Handling
<1> QED
  BY <1>1, <1>2, <1>3, <1>5, <1>6

\* A write of an object that keeps its UID and label.
LEMMA RewriteFits ==
    ASSUME IInv, UNCHANGED <<settings, kind>>, object.uid \in DOMAIN born,
           object.tenant = born[object.uid], NEW t, t = object.tenant,
           Stored([object EXCEPT !.rev = @ + 1, !.tenant = t])
    PROVE  Grows /\ ClusterFits'
<1>1. /\ object' = [object EXCEPT !.rev = @ + 1, !.tenant = t]
      /\ UNCHANGED <<cache, born, accounts, keys, revoked>>
  BY DEF Stored
<1>2. Grows
  BY <1>1, GrowsQuietly DEF IInv
<1>3. object \in Objects /\ t \in Namespaces
  BY DEF IInv, ClusterFits, Objects
<1>4. object' \in Objects /\ object'.uid = object.uid /\ object'.tenant = object.tenant
  <2>1. PICK n \in Nat : n = object.rev + 1
    BY <1>3 DEF Objects
  <2>2. object' = [object EXCEPT !.rev = n, !.tenant = t]
    BY <1>1, <2>1
  <2> QED
    BY <1>3, <2>2 DEF Objects
<1> QED
  BY <1>1, <1>2, <1>4, StoredFits

\* The first write of Trigger was made.
LEMMA TriggerMoves ==
    ASSUME IInv, Grows, NEW c \in Clients, req[c].step = "update", req[c].route = "trigger",
           NEW t \in Namespaces, NEW new \in Objects,
           settings.tenant => t = req[c].who,
           ScopeOf(c) # Nobody => new.tenant = ScopeOf(c),
           new.uid \in DOMAIN born', new.tenant = born'[new.uid],
           Continue(c, [req[c] EXCEPT !.did = {Effect("update", t)}, !.copy = new], "status")
    PROVE  Moved(c)
<1> DEFINE D == {Effect("update", t)}
           r == [req[c] EXCEPT !.did = D, !.copy = new]
<1>1. req[c] \in RequestType /\ RequestInv(c) /\ RequestType \subseteq RequestType'
  BY TypeGrows DEF IInv
<1>2. Truthful(c, 500, D) /\ D \in SUBSET Effects
  <2>1. \E i \in DOMAIN Asked(c) : Asked(c)[i] = "update"
    BY RoutePermissionsCover DEF Asked, IInv
  <2>2. "update" \in Verbs \ {"log"} /\ req[c].step \in Handling
    BY DEF Verbs, Handling
  <2> QED
    BY <2>1, <2>2, OneEffect
<1>3. {e.verb : e \in D} = {"update"}
  BY DEF Effect
<1>4. Continue(c, r, "status")
  OBVIOUS
<1> HIDE DEF D
<1>5. r \in RequestType'
  <2>1. D \in SUBSET Effects' /\ new \in Objects' /\ req[c] \in RequestType'
    BY <1>1, <1>2 DEF Effects, Namespaces, Verbs, Objects
  <2> QED
    BY <2>1 DEF RequestType
<1>6. /\ r.route = req[c].route /\ r.cred = req[c].cred /\ r.who = req[c].who
      /\ r.user = req[c].user /\ r.copy = new
      /\ r.pod = req[c].pod /\ r.event = req[c].event /\ r.did = D
      /\ r.late = req[c].late /\ r.barred = req[c].barred /\ r.status = req[c].status
  BY <1>1 DEF RequestType
<1> HIDE DEF r
<1>7. "status" \in Handling /\ "status" \in Handling \cup {"account", "authorize"}
  BY DEF Handling
<1>8. /\ req' \in [Clients -> RequestType']
      /\ \A d \in Clients : d # c => req'[d] = req[d]
      /\ req'[c].step = "status"
      /\ req'[c].route = r.route /\ req'[c].cred = r.cred /\ req'[c].who = r.who
      /\ req'[c].user = r.user /\ req'[c].todo = r.todo /\ req'[c].copy = r.copy
      /\ req'[c].pod = r.pod /\ req'[c].event = r.event /\ req'[c].did = r.did
      /\ req'[c].late = r.late /\ req'[c].barred = r.barred /\ req'[c].status = r.status
  <2>1. req \in [Clients -> RequestType]
    BY DEF IInv
  <2> QED
    BY <1>1, <1>4, <1>5, <1>7, <2>1, ContinueFacts, ZenonT(30)
<1>9. /\ Onward(c) /\ req'[c].step = "status" /\ req'[c].user = req[c].user
      /\ req'[c].copy = new /\ req'[c].pod = req[c].pod /\ req'[c].did = D
  BY <1>6, <1>7, <1>8 DEF Onward
<1>10. /\ req[c].pod = 0 /\ req[c].route \in Routes /\ ~req[c].late
       /\ req[c].status = 0 /\ req[c].event = "none"
  <2>1. req[c].pod = 0 /\ req[c].route \in Routes
    BY <1>1 DEF RequestInv, RouteFits
  <2>2. ~req[c].late
    BY HandlingFacts DEF Handling
  <2>3. req[c].status = 0 /\ req[c].event = "none"
    BY <1>1 DEF RequestInv, EffectsFit
  <2> QED
    BY <2>1, <2>2, <2>3
<1>11. Mode' = Mode /\ Routes' = Routes /\ ScopeOf(c)' = ScopeOf(c)
  BY <1>9, ConfigStays, AskedStays DEF Onward
<1>12. RouteFits(c)'
  BY <1>9, <1>10, <1>11 DEF RouteFits, Onward
<1>13. CopyFits(c)'
  <2>1. new # NoObject
    <3>1. new.uid # 0
      BY DEF Grows
    <3> QED
      BY <3>1 DEF NoObject
  <2> QED
    BY <1>9, <1>10, <1>11, <2>1 DEF CopyFits, Genuine
<1>14. IdentityFits(c)' /\ TodoFits(c)' /\ Cleared(c)' /\ LogCleared(c)'
  BY <1>7, <1>9, HandlerKeeps DEF Handling
<1>15. LateRefused(c)'
  BY <1>9, <1>10 DEF LateRefused, Onward
<1>16. VerbsOf(c)' = {"update"}
  BY <1>3, <1>9 DEF VerbsOf
<1>17. EffectsFit(c)'
  BY <1>9, <1>10, <1>16 DEF EffectsFit, Onward
<1>18. Apart(c)'
  BY <1>2, <1>9 DEF Apart, Truthful, Grows, Onward
<1>19. Allowed(c)'
  BY <1>2, <1>9, <1>11 DEF Allowed, Truthful, Granted, Permission, Onward
<1>20. Answers(c)'
  BY <1>9, <1>10 DEF Answers, Onward
<1> QED
  BY <1>8, <1>12, <1>13, <1>14, <1>15, <1>17, <1>18, <1>19, <1>20 DEF Moved, RequestInv

\* Update of the copy that was read, refused when its resource version is old.
LEMMA UpdateIInv ==
    ASSUME IInv, NEW c \in Clients, Update(c)
    PROVE  IInv'
<1>1. req[c].step = "update" /\ req[c].step \in Handling \ {"status"} /\ UNCHANGED <<settings, kind>>
  BY DEF Update, Handling
<1>2. /\ req[c].route \in {"update", "trigger", "suspend"} /\ req[c] \in RequestType
      /\ req[c].did = {}
  BY <1>1 DEF IInv, RequestInv, RouteFits, EffectsFit
<1>3. CASE Respond(c, req[c], 500) /\ UNCHANGED cluster
  <2>1. Grows /\ ClusterFits'
    BY <1>1, <1>3, QuietGrows DEF Quiet
  <2> QED
    BY <1>1, <1>3, <2>1, HandlerRefuses, MovedIInv
<1> DEFINE new == [object EXCEPT !.rev = @ + 1, !.tenant = req[c].copy.tenant]
           done == [req[c] EXCEPT !.did = @ \cup {Effect("update", object.tenant)}]
<1>4. ASSUME Writable(req[c]), Stored(new),
             \/ req[c].route = "trigger" /\ Continue(c, [done EXCEPT !.copy = new], "status")
             \/ req[c].route # "trigger" /\ Respond(c, done, 200)
             \/ Respond(c, done, 500)
      PROVE  IInv'
  <2>1. /\ object.uid \in DOMAIN born /\ object.tenant = born[object.uid]
        /\ req[c].copy.tenant = object.tenant
        /\ settings.tenant => object.tenant = req[c].who
    BY <1>1, <1>4, WritableFacts
  <2>2. Grows /\ ClusterFits'
    BY <1>1, <1>4, <2>1, RewriteFits
  <2>3. PICK t \in Namespaces : t = object.tenant
    BY DEF IInv, ClusterFits, Objects
  <2>4. done = [req[c] EXCEPT !.did = {Effect("update", t)}]
    BY <1>2, <2>3
  <2>5. CASE req[c].route = "trigger" /\ Continue(c, [done EXCEPT !.copy = new], "status")
    <3>1. PICK obj \in Objects : obj = object'
      <4>1. Objects' = Objects
        BY DEF Objects, Namespaces
      <4> QED
        BY <2>2, <4>1 DEF ClusterFits
    <3>2. obj = new
      BY <1>4, <3>1 DEF Stored
    <3>3. obj.uid = object.uid /\ obj.tenant = t
      BY <2>1, <2>3, <3>2 DEF IInv, ClusterFits, Objects
    <3>4. [done EXCEPT !.copy = new] = [req[c] EXCEPT !.did = {Effect("update", t)}, !.copy = obj]
      BY <1>2, <2>4, <3>2 DEF RequestType
    <3>5. ScopeOf(c) # Nobody => t = ScopeOf(c)
      BY <1>1, <2>1, <2>3 DEF IInv, RequestInv, CopyFits
    <3>6. obj.uid \in DOMAIN born' /\ obj.tenant = born'[obj.uid]
      BY <2>1, <2>2, <2>3, <3>3 DEF Grows
    <3>7. Continue(c, [req[c] EXCEPT !.did = {Effect("update", t)}, !.copy = obj], "status")
      BY <2>5, <3>4
    <3>8. Moved(c)
      BY <1>1, <2>1, <2>2, <2>3, <2>5, <3>3, <3>5, <3>6, <3>7, TriggerMoves
    <3> QED
      BY <2>2, <3>8, MovedIInv
  <2>6. ASSUME NEW status \in {200, 500}, status = 200 => req[c].route # "trigger",
               Respond(c, done, status)
        PROVE  IInv'
    <3>1. (\E i \in DOMAIN Asked(c) : Asked(c)[i] = "update")
      BY <1>2, RoutePermissionsCover DEF Asked, IInv
    <3>2. status # 500 => Writes(c) = {"update"}
      BY <1>2, <2>6, RoutePermissionsCover DEF Asked, Writes, IInv
    <3>3. "update" \in Verbs \ {"log"}
      BY DEF Verbs
    <3>4. Respond(c, [req[c] EXCEPT !.did = {Effect("update", t)}], status)
      BY <2>4, <2>6
    <3>5. Moved(c)
      BY <1>1, <2>1, <2>2, <2>3, <3>1, <3>2, <3>3, <3>4, OneEffectMoves
    <3> QED
      BY <2>2, <3>5, MovedIInv
  <2> QED
    BY <1>4, <2>5, <2>6
<1> QED
  BY <1>3, <1>4 DEF Update, Labelled

\* A write that leaves the label alone.
LEMMA TouchFits ==
    ASSUME IInv, UNCHANGED <<settings, kind>>, object # NoObject,
           Stored([object EXCEPT !.rev = @ + 1])
    PROVE  Grows /\ ClusterFits'
<1>1. object.uid \in DOMAIN born /\ object.tenant = born[object.uid] /\ object \in Objects
  BY DEF IInv, ClusterFits, Genuine
<1>2. PICK t \in Namespaces : t = object.tenant
  BY <1>1 DEF Objects
<1>3. [object EXCEPT !.rev = @ + 1] = [object EXCEPT !.rev = @ + 1, !.tenant = t]
  BY <1>1, <1>2 DEF Objects
<1> QED
  BY <1>1, <1>2, <1>3, RewriteFits

\* The second write of Trigger, to the status subresource.
LEMMA UpdateStatusIInv ==
    ASSUME IInv, NEW c \in Clients, UpdateStatus(c)
    PROVE  IInv'
<1>1. req[c].step = "status" /\ req[c].step \in Handling /\ req[c].step \in Answering
      /\ UNCHANGED <<settings, kind>>
  BY DEF UpdateStatus, Handling, Answering
<1>2. /\ req[c].route = "trigger" /\ req[c] \in RequestType /\ VerbsOf(c) = {"update"}
      /\ Apart(c) /\ Allowed(c) /\ ~req[c].late
  BY <1>1, HandlingFacts DEF IInv, RequestInv, RouteFits, EffectsFit
<1>3. CASE Respond(c, req[c], 500) /\ UNCHANGED cluster
  <2>1. Grows /\ ClusterFits'
    BY <1>1, <1>3, QuietGrows DEF Quiet
  <2>2. 500 \in Statuses \ {200, 201}
    BY DEF Statuses
  <2> QED
    BY <1>1, <1>2, <1>3, <2>1, <2>2, RefusalMoves, MovedIInv
<1>4. ASSUME Writable(req[c]), Stored([object EXCEPT !.rev = @ + 1]), NEW status \in {200, 500},
             Respond(c, [req[c] EXCEPT !.did = @ \cup {Effect("status", object.tenant)}], status)
      PROVE  IInv'
  <2>1. /\ object.uid \in DOMAIN born /\ object.tenant = born[object.uid]
        /\ settings.tenant => object.tenant = req[c].who
    BY <1>1, <1>4, WritableFacts
  <2>2. object # NoObject
    <3>1. object.uid # 0
      BY <2>1 DEF IInv, ClusterFits
    <3> QED
      BY <3>1 DEF NoObject
  <2>3. Grows /\ ClusterFits'
    BY <1>1, <1>4, <2>2, TouchFits
  <2>4. PICK t \in Namespaces : t = object.tenant
    BY DEF IInv, ClusterFits, Objects
  <2>5. PICK eff \in Effects : eff.verb = "status" /\ eff.tenant = t /\ eff = Effect("status", t)
    <3>1. "status" \in Verbs
      BY DEF Verbs
    <3>2. /\ Effect("status", t) \in Effects
          /\ Effect("status", t).verb = "status" /\ Effect("status", t).tenant = t
      BY <3>1 DEF Effect, Effects
    <3> QED
      BY <3>2, Zenon
  <2>6. PICK D \in SUBSET Effects : D = req[c].did \cup {eff}
    <3>1. req[c].did \in SUBSET Effects
      BY <1>2 DEF RequestType
    <3>2. req[c].did \cup {eff} \in SUBSET Effects
      BY <3>1
    <3> QED
      BY <3>2, Zenon
  <2>7. {e.verb : e \in D} = {"update", "status"}
    BY <1>2, <2>5, <2>6 DEF VerbsOf
  <2>8. Truthful(c, status, D)
    <3>1. settings.tenant => \A e \in D : e.tenant = req[c].who
      BY <1>2, <2>1, <2>4, <2>5, <2>6 DEF Apart
    <3>2. Mode # "anonymous" => Granted(c, "status", ScopeOf(c))
      BY <1>1, <1>2, HandlingFacts, RoutePermissionsCover DEF Asked, IInv
    <3>3. Mode # "anonymous" => \A e \in D :
            Granted(c, e.verb, IF e.verb = "log" THEN e.tenant ELSE ScopeOf(c))
      BY <1>2, <2>5, <2>6, <3>2 DEF Allowed
    <3>4. Writes(c) = {"update", "status"}
      BY <1>2, RoutePermissionsCover DEF Asked, Writes, IInv
    <3> QED
      BY <1>2, <2>7, <3>1, <3>3, <3>4 DEF Truthful
  <2>9. Respond(c, [req[c] EXCEPT !.did = D], status)
    BY <1>4, <2>4, <2>5, <2>6
  <2>10. status \in Statuses
    BY DEF Statuses
  <2>11. Moved(c)
    BY <1>1, <2>3, <2>8, <2>9, <2>10, EffectMoves
  <2> QED
    BY <2>3, <2>11, MovedIInv
<1> QED
  BY <1>3, <1>4 DEF UpdateStatus

\* Delete, with the UID precondition that deleteOptions adds under tenant isolation.
LEMMA DeleteIInv ==
    ASSUME IInv, NEW c \in Clients, Delete(c)
    PROVE  IInv'
<1>1. req[c].step = "delete" /\ req[c].step \in Handling \ {"status"} /\ UNCHANGED <<settings, kind>>
  BY DEF Delete, Handling
<1>2. req[c].route = "delete" /\ CopyFits(c)
  BY <1>1 DEF IInv, RequestInv, RouteFits
<1>3. CASE UNCHANGED cluster /\ \E status \in {404, 500} : Respond(c, req[c], status)
  <2>1. Grows /\ ClusterFits'
    BY <1>1, <1>3, QuietGrows DEF Quiet
  <2> QED
    BY <1>1, <1>3, <2>1, HandlerRefuses, MovedIInv
<1>4. ASSUME object # NoObject, DeleteOptions(req[c]), NEW status \in {200, 500},
             Stored(NoObject) \/ Stored([object EXCEPT !.rev = @ + 1]),
             Respond(c, [req[c] EXCEPT !.did = {Effect("delete", object.tenant)}], status)
      PROVE  IInv'
  <2>1. Grows /\ ClusterFits'
    <3>1. CASE Stored([object EXCEPT !.rev = @ + 1])
      BY <1>1, <1>4, <3>1, TouchFits
    <3>2. CASE Stored(NoObject)
      <4>1. object' = NoObject /\ UNCHANGED <<cache, born, accounts, keys, revoked>>
        BY <3>2 DEF Stored
      <4>2. Grows
        BY <1>1, <4>1, GrowsQuietly DEF IInv
      <4>3. object' \in Objects
        BY <4>1 DEF NoObject, Objects, Namespaces
      <4> QED
        BY <4>1, <4>2, <4>3, StoredFits
    <3> QED
      BY <1>4, <3>1, <3>2
  <2>2. object.uid \in DOMAIN born /\ object.tenant = born[object.uid]
    BY <1>4 DEF IInv, ClusterFits, Genuine
  <2>3. settings.tenant => object.tenant = req[c].who
    <3> SUFFICES ASSUME settings.tenant PROVE object.tenant = req[c].who
      OBVIOUS
    <3>1. ScopeOf(c) = req[c].who /\ ScopeOf(c) # Nobody
      BY <1>1, HandlingFacts
    <3>2. object.uid = req[c].copy.uid
      BY <1>4, <3>1 DEF DeleteOptions, ScopeOf
    <3>3. req[c].copy # NoObject
      <4>1. object.uid # 0
        BY <2>2 DEF IInv, ClusterFits
      <4> QED
        BY <3>2, <4>1 DEF NoObject
    <3> QED
      BY <1>2, <2>2, <3>1, <3>2, <3>3 DEF CopyFits, Genuine
  <2>4. PICK t \in Namespaces : t = object.tenant
    BY DEF IInv, ClusterFits, Objects
  <2>5. (\E i \in DOMAIN Asked(c) : Asked(c)[i] = "delete") /\ Writes(c) = {"delete"}
    BY <1>2, RoutePermissionsCover DEF Asked, Writes, IInv
  <2>6. "delete" \in Verbs \ {"log"}
    BY DEF Verbs
  <2>7. Respond(c, [req[c] EXCEPT !.did = {Effect("delete", t)}], status)
    BY <1>4, <2>4
  <2>8. Moved(c)
    BY <1>1, <2>1, <2>3, <2>4, <2>5, <2>6, <2>7, OneEffectMoves
  <2> QED
    BY <2>1, <2>8, MovedIInv
<1> QED
  BY <1>3, <1>4 DEF Delete

\* A Pod of the Task that was read was found.
LEMMA FoundMoves ==
    ASSUME IInv, Quiet, Grows, NEW c \in Clients, req[c].step = "pod", NEW u \in PodsOf(req[c].copy),
           NEW todo \in Seq(Verbs), NEW step \in {"stream", "authorize"},
           step = "stream" => Mode = "anonymous",
           step = "authorize" => Mode # "anonymous" /\ todo = <<"log">>,
           NEW r, r = [req[c] EXCEPT !.pod = u, !.todo = todo],
           Continue(c, r, step)
    PROVE  Moved(c)
<1>1. req[c] \in RequestType /\ RequestInv(c) /\ RequestType \subseteq RequestType'
  BY TypeGrows DEF IInv
<1>2. /\ u \in DOMAIN born /\ born[u] = req[c].copy.tenant
      /\ req[c].copy.tenant # Nobody => u = req[c].copy.uid
  BY DEF PodsOf
<1>3. r \in RequestType'
  <2>1. u \in (0..Len(born))' /\ req[c] \in RequestType'
    BY <1>1, <1>2 DEF Quiet, cluster, IInv, ClusterFits
  <2> QED
    BY <2>1 DEF RequestType, Verbs
<1>4. /\ r.route = req[c].route /\ r.cred = req[c].cred /\ r.who = req[c].who
      /\ r.user = req[c].user /\ r.todo = todo /\ r.copy = req[c].copy
      /\ r.pod = u /\ r.event = req[c].event /\ r.did = req[c].did
      /\ r.late = req[c].late /\ r.barred = req[c].barred /\ r.status = req[c].status
  BY <1>1 DEF RequestType
<1>5. step \in Handling \cup {"account", "authorize"}
  BY DEF Handling
<1>6. /\ req' \in [Clients -> RequestType']
      /\ \A d \in Clients : d # c => req'[d] = req[d]
      /\ req'[c].step = step
      /\ req'[c].route = r.route /\ req'[c].cred = r.cred /\ req'[c].who = r.who
      /\ req'[c].user = r.user /\ req'[c].todo = r.todo /\ req'[c].copy = r.copy
      /\ req'[c].pod = r.pod /\ req'[c].event = r.event /\ req'[c].did = r.did
      /\ req'[c].late = r.late /\ req'[c].barred = r.barred /\ req'[c].status = r.status
  <2>1. req \in [Clients -> RequestType]
    BY DEF IInv
  <2> QED
    BY <1>1, <1>3, <1>5, <2>1, ContinueFacts, ZenonT(30)
<1>7. /\ Onward(c) /\ req'[c].step = step /\ req'[c].user = req[c].user
      /\ req'[c].copy = req[c].copy /\ req'[c].pod = u /\ req'[c].did = req[c].did
      /\ req'[c].todo = todo
  BY <1>4, <1>5, <1>6 DEF Onward
<1>8. /\ req[c].did = {} /\ req[c].route \in Routes /\ req[c].route = "logs"
      /\ req[c].copy # NoObject /\ Genuine(req[c].copy)
      /\ ScopeOf(c) # Nobody => req[c].copy.tenant = ScopeOf(c)
  <2>1. req[c].did = {}
    BY <1>1 DEF RequestInv, EffectsFit
  <2>2. req[c].route \in Routes /\ req[c].route = "logs"
    BY <1>1 DEF RequestInv, RouteFits
  <2> QED
    BY <1>1, <2>1, <2>2 DEF RequestInv, CopyFits
<1>9. /\ Mode' = Mode /\ Routes' = Routes /\ ScopeOf(c)' = ScopeOf(c)
      /\ Asked(c)' = Asked(c) /\ born' = born
  BY <1>7, ConfigStays, AskedStays DEF Onward, Quiet, cluster
<1>10. RouteFits(c)'
  BY <1>7, <1>8, <1>9 DEF RouteFits, Onward
<1>11. u # 0
  BY <1>2 DEF IInv, ClusterFits
<1>12. CopyFits(c)'
  BY <1>2, <1>7, <1>8, <1>9, <1>11 DEF CopyFits, Genuine
<1>13. CASE step = "stream"
  BY <1>7, <1>8, <1>10, <1>12, <1>13, HandlerMoves DEF Handling
<1>14. CASE step = "authorize"
  <2>1. req[c].user /\ req[c].who \in Tenants
    BY <1>1, <1>14 DEF RequestInv, IdentityFits, Handling
  <2>2. IdentityFits(c)'
    BY <1>7, <1>9, <1>14, <2>1 DEF IdentityFits, Onward
  <2>3. TodoFits(c)' /\ LogCleared(c)'
    <3>1. todo = <<"log">> /\ <<"log">> # <<>>
      BY <1>14
    <3> QED
      BY <1>7, <1>11, <1>14, <3>1, Zenon DEF TodoFits, LogCleared
  <2>4. Mode # "anonymous" => \A i \in DOMAIN Asked(c) : Granted(c, Asked(c)[i], ScopeOf(c))
    BY HandlingFacts DEF Handling
  <2>5. Cleared(c)'
    BY <1>7, <1>9, <2>4 DEF Cleared, Granted, Permission, Onward
  <2>6. ~req[c].late /\ req[c].step \in Answering
    BY HandlingFacts DEF Answering, Handling
  <2> QED
    BY <1>7, <1>8, <1>10, <1>12, <1>14, <2>2, <2>3, <2>5, <2>6, OnwardMoves
<1> QED
  BY <1>13, <1>14

\* The choice of Job and Pod by the log handler, and the second authorization it asks
\* for.
LEMMA FindPodIInv ==
    ASSUME IInv, NEW c \in Clients, FindPod(c)
    PROVE  IInv'
<1>1. Quiet /\ req[c].step = "pod" /\ req[c].step \in Handling \ {"status"}
  BY DEF FindPod, Quiet, Handling
<1>2. Grows /\ ClusterFits'
  BY <1>1, QuietGrows
<1>3. CASE \E status \in {404, 500} : Respond(c, req[c], status)
  BY <1>1, <1>2, <1>3, HandlerRefuses, MovedIInv
<1>4. req[c] \in RequestType
  BY DEF IInv
<1>5. ASSUME NEW u \in PodsOf(req[c].copy), Mode = "anonymous",
             Continue(c, [req[c] EXCEPT !.pod = u], "stream")
      PROVE  IInv'
  <2>1. PICK todo \in Seq(Verbs) : todo = req[c].todo
    BY <1>4 DEF RequestType
  <2>2. [req[c] EXCEPT !.pod = u] = [req[c] EXCEPT !.pod = u, !.todo = todo]
    BY <1>4, <2>1 DEF RequestType
  <2>3. Continue(c, [req[c] EXCEPT !.pod = u, !.todo = todo], "stream")
    BY <1>5, <2>2
  <2>4. Moved(c)
    BY <1>1, <1>2, <1>5, <2>3, FoundMoves
  <2> QED
    BY <1>2, <2>4, MovedIInv
<1>6. ASSUME NEW u \in PodsOf(req[c].copy), Mode # "anonymous",
             Continue(c, [[req[c] EXCEPT !.pod = u] EXCEPT !.todo = <<"log">>], "authorize")
      PROVE  IInv'
  <2>1. PICK todo \in Seq(Verbs) : todo = <<"log">>
    <3>1. <<"log">> \in Seq(Verbs)
      BY DEF Verbs
    <3> QED
      BY <3>1, Zenon
  <2>2. [[req[c] EXCEPT !.pod = u] EXCEPT !.todo = <<"log">>] = [req[c] EXCEPT !.pod = u, !.todo = todo]
    BY <1>4, <2>1 DEF RequestType
  <2>3. Continue(c, [req[c] EXCEPT !.pod = u, !.todo = todo], "authorize")
    BY <1>6, <2>2
  <2>4. Moved(c)
    BY <1>1, <1>2, <1>6, <2>1, <2>3, FoundMoves
  <2> QED
    BY <1>2, <2>4, MovedIInv
<1> QED
  BY <1>3, <1>5, <1>6 DEF FindPod

\* The streaming of a Pod's log.
LEMMA StreamIInv ==
    ASSUME IInv, NEW c \in Clients, Stream(c)
    PROVE  IInv'
<1>1. Quiet /\ req[c].step = "stream" /\ req[c].step \in Handling \ {"status"}
  BY DEF Stream, Quiet, Handling
<1>2. Grows /\ ClusterFits'
  BY <1>1, QuietGrows
<1>3. CASE Respond(c, req[c], 500)
  BY <1>1, <1>2, <1>3, HandlerRefuses, MovedIInv
<1>4. CASE Respond(c, [req[c] EXCEPT !.did = {Effect("log", born[req[c].pod])}], 200)
  <2>1. RequestInv(c) /\ req[c] \in RequestType
    BY DEF IInv
  <2>2. /\ req[c].pod # 0 /\ born[req[c].pod] = req[c].copy.tenant
        /\ ScopeOf(c) # Nobody => born[req[c].pod] = ScopeOf(c)
    BY <1>1, <2>1 DEF RequestInv, CopyFits
  <2>3. req[c].pod \in DOMAIN born
    BY <2>1, <2>2 DEF RequestType, IInv, ClusterFits
  <2>4. PICK t \in Namespaces : t = born[req[c].pod]
    BY <2>3 DEF IInv, ClusterFits
  <2>5. ~req[c].late /\ (settings.tenant => t = req[c].who)
    BY <1>1, <2>2, <2>4, HandlingFacts
  <2>6. Mode # "anonymous" => Granted(c, "log", t)
    BY <1>1, <2>1, <2>4 DEF RequestInv, LogCleared
  <2>7. req[c].route \notin AuditOperations
    BY <1>1, <2>1 DEF RequestInv, RouteFits, AuditOperations
  <2> DEFINE eff == Effect("log", t)
  <2>8. eff.verb = "log" /\ eff.tenant = t /\ eff \in Effects
    BY DEF Effect, Effects, Verbs
  <2>9. Respond(c, [req[c] EXCEPT !.did = {eff}], 200)
    BY <1>4, <2>4
  <2> HIDE DEF eff
  <2>10. Truthful(c, 200, {eff})
    BY <2>2, <2>5, <2>6, <2>7, <2>8 DEF Truthful
  <2>11. PICK D \in SUBSET Effects : D = {eff}
    BY <2>8
  <2>12. Respond(c, [req[c] EXCEPT !.did = D], 200) /\ Truthful(c, 200, D)
    BY <2>9, <2>10, <2>11
  <2>13. req[c].step \in Answering /\ 200 \in Statuses
    BY <1>1 DEF Answering, Statuses
  <2>14. Moved(c)
    BY <1>2, <2>12, <2>13, EffectMoves
  <2> QED
    BY <1>2, <2>14, MovedIInv
<1> QED
  BY <1>3, <1>4 DEF Stream

-----------------------------------------------------------------------------
(* Audit.                                                                  *)

\* Whatever is audited asks for a write.
LEMMA WritesSomething ==
    ASSUME IInv, NEW c \in Clients, req[c].route \in AuditOperations
    PROVE  Writes(c) # {}
  BY RoutePermissionsCover DEF IInv, Writes, Asked, AuditOperations

\* The Audit middleware: the Event is written after the answer is known.
LEMMA AuditIInv ==
    ASSUME IInv, NEW c \in Clients, Audit(c)
    PROVE  IInv'
<1>1. Quiet /\ req[c].step = "audit"
  BY DEF Audit, Quiet
<1>2. Grows /\ ClusterFits'
  BY <1>1, QuietGrows
<1>3. req[c] \in RequestType /\ RequestInv(c) /\ RequestType \subseteq RequestType'
  BY <1>2, TypeGrows DEF IInv
<1>4. PICK event : /\ event \in {Reason(req[c].status), "lost"}
                   /\ req' = [req EXCEPT ![c].step = "done", ![c].event = event]
  BY DEF Audit
<1>5. Reason(req[c].status) \in {"denied", "failed", "succeeded"}
  BY DEF Reason
<1>6. event \in Reasons /\ event # "none"
  BY <1>4, <1>5 DEF Reasons
<1> DEFINE r == [req[c] EXCEPT !.step = "done", !.event = event]
<1>7. r \in RequestType'
  <2>1. "done" \in Steps /\ req[c] \in RequestType'
    BY <1>3 DEF Steps
  <2> QED
    BY <1>6, <2>1 DEF RequestType
<1>8. /\ r.step = "done" /\ r.event = event
      /\ r.route = req[c].route /\ r.cred = req[c].cred /\ r.who = req[c].who
      /\ r.user = req[c].user /\ r.todo = req[c].todo /\ r.copy = req[c].copy
      /\ r.pod = req[c].pod /\ r.did = req[c].did
      /\ r.late = req[c].late /\ r.barred = req[c].barred /\ r.status = req[c].status
  BY <1>3 DEF RequestType
<1>9. req' = [req EXCEPT ![c] = r]
  BY <1>3, <1>4 DEF IInv, RequestType
<1> HIDE DEF r
<1>10. req'[c] = r /\ \A d \in Clients : d # c => req'[d] = req[d]
  BY <1>9 DEF IInv
<1>11. req' \in [Clients -> RequestType']
  BY <1>3, <1>7, <1>9 DEF IInv
<1>12. /\ Mode' = Mode /\ Routes' = Routes /\ born' = born /\ settings' = settings
       /\ ScopeOf(c)' = ScopeOf(c) /\ Writes(c)' = Writes(c) /\ VerbsOf(c)' = VerbsOf(c)
       /\ accounts' = accounts /\ keys' = keys
  BY <1>1, <1>2, <1>8, <1>10, ConfigStays, AskedStays DEF VerbsOf, Quiet, cluster
<1> USE DEF RequestInv
<1>13. RouteFits(c)' /\ CopyFits(c)'
  BY <1>1, <1>3, <1>8, <1>10, <1>12 DEF RouteFits, CopyFits, Genuine
<1>14. IdentityFits(c)'
  BY <1>1, <1>3, <1>8, <1>10, <1>12 DEF IdentityFits, Handling
<1>15. LateRefused(c)'
  BY <1>1, <1>3, <1>8, <1>10, <1>12 DEF LateRefused, Void
<1>16. TodoFits(c)' /\ Cleared(c)' /\ LogCleared(c)'
  BY <1>8, <1>10 DEF TodoFits, Cleared, LogCleared, Handling
<1>17. EffectsFit(c)'
  BY <1>1, <1>3, <1>8, <1>10, <1>12 DEF EffectsFit
<1>18. Apart(c)' /\ Allowed(c)'
  BY <1>3, <1>8, <1>10, <1>12 DEF Apart, Allowed, Granted, Permission
<1>19. Answers(c)'
  <2>1. req[c].user /\ req[c].route \in AuditOperations /\ req[c].status \in Statuses
    <3>1. req[c].user /\ req[c].route \in AuditOperations
      BY <1>1, <1>3 DEF IdentityFits
    <3>2. req[c].status # 0 /\ req[c].status \in Statuses \cup {0}
      BY <1>1, <1>3 DEF EffectsFit, RequestType
    <3> QED
      BY <3>1, <3>2
  <2>2. event = "denied" => VerbsOf(c) = {}
    <3>1. event = "denied" => req[c].status = 403
      BY <1>4 DEF Reason
    <3> QED
      BY <1>3, <3>1 DEF Answers
  <2>3. event = "succeeded" => VerbsOf(c) # {}
    <3>1. event = "succeeded" => req[c].status \in {200, 201}
      BY <1>4, <2>1 DEF Reason, Statuses
    <3> QED
      BY <1>3, <2>1, <3>1, WritesSomething DEF Answers
  <2>4. /\ (req[c].status \in {200, 201} /\ req[c].route \in AuditOperations) => VerbsOf(c) = Writes(c)
        /\ req[c].status \in 400..499 \cup {503} => VerbsOf(c) = {}
    BY <1>3 DEF Answers
  <2>5. /\ req'[c].user /\ req'[c].route = req[c].route /\ req'[c].status = req[c].status
        /\ req'[c].event = event
    BY <1>8, <1>10, <2>1
  <2>6. /\ req'[c].event # "none" <=> (req'[c].user /\ req'[c].route \in AuditOperations)
        /\ req'[c].event = "denied" => VerbsOf(c)' = {}
        /\ req'[c].event = "succeeded" => VerbsOf(c)' # {}
    BY <1>6, <1>12, <2>1, <2>2, <2>3, <2>5
  <2>7. /\ (req'[c].status \in {200, 201} /\ req'[c].route \in AuditOperations) => VerbsOf(c)' = Writes(c)'
        /\ req'[c].status \in 400..499 \cup {503} => VerbsOf(c)' = {}
    BY <1>12, <2>4, <2>5
  <2> QED
    BY <2>6, <2>7 DEF Answers, AuditOperations
<1>20. Moved(c)
  BY <1>10, <1>11, <1>13, <1>14, <1>15, <1>16, <1>17, <1>18, <1>19 DEF Moved
<1> QED
  BY <1>2, <1>20, MovedIInv

-----------------------------------------------------------------------------
(* What others do.                                                         *)

\* A step of others that only lets the history grow leaves every invariant of every
\* request in force.
LEMMA OthersIInv ==
    ASSUME IInv, Grows, ClusterFits', req' = req
    PROVE  IInv'
<1>1. SettingsFit'
  BY DEF IInv, SettingsFit, Grows, LoadConfig
<1>2. req' \in [Clients -> RequestType']
  <2>1. RequestType \subseteq RequestType'
    BY TypeGrows DEF IInv
  <2> QED
    BY <2>1 DEF IInv
<1>3. ASSUME NEW c \in Clients PROVE RequestInv(c)'
  BY RequestStays DEF IInv
<1> QED
  BY <1>1, <1>2, <1>3 DEF IInv

\* The informer cache catches up with the API server.
LEMMA RefreshIInv ==
    ASSUME IInv, Refresh
    PROVE  IInv'
<1>1. /\ cache' = object
      /\ UNCHANGED <<settings, kind, object, born, accounts, keys, revoked, req>>
  BY DEF Refresh
<1>2. Grows
  BY <1>1, GrowsQuietly DEF IInv
<1>3. ClusterFits'
  BY <1>1 DEF IInv, ClusterFits, Genuine
<1> QED
  BY <1>1, <1>2, <1>3, OthersIInv

\* Others delete and create objects, remake accounts, unbind keys and revoke
\* permissions.
LEMMA ChangeIInv ==
    ASSUME IInv, Change
    PROVE  IInv'
<1>1. UNCHANGED <<settings, kind, cache, req>>
  BY DEF Change
<1>2. CASE ObjectChange /\ UNCHANGED <<accounts, keys, revoked>>
  <2>1. CASE object' = NoObject /\ UNCHANGED born
    <3>1. Grows
      BY <1>1, <1>2, <2>1, GrowsQuietly DEF IInv
    <3>2. object' \in Objects
      BY <2>1 DEF NoObject, Objects, Namespaces
    <3> QED
      BY <1>1, <1>2, <2>1, <3>1, <3>2, StoredFits, OthersIInv
  <2>2. CASE object # NoObject /\ object' = [object EXCEPT !.rev = @ + 1] /\ UNCHANGED born
    <3>1. Grows
      BY <1>1, <1>2, <2>2, GrowsQuietly DEF IInv
    <3>2. object \in Objects /\ object.uid \in DOMAIN born /\ object.tenant = born[object.uid]
      BY <2>2 DEF IInv, ClusterFits, Genuine
    <3>3. object' \in Objects /\ object'.uid = object.uid /\ object'.tenant = object.tenant
      <4>1. PICK n \in Nat : n = object.rev + 1
        BY <3>2 DEF Objects
      <4>2. object' = [object EXCEPT !.rev = n]
        BY <2>2, <4>1
      <4> QED
        BY <3>2, <4>2 DEF Objects
    <3> QED
      BY <1>1, <1>2, <2>2, <3>1, <3>2, <3>3, StoredFits, OthersIInv
  <2>3. ASSUME NEW t \in Namespaces,
               object' = [uid |-> Len(born) + 1, rev |-> 1, tenant |-> t],
               born' = Append(born, t)
        PROVE  IInv'
    BY <1>1, <1>2, <2>3, BornFits, OthersIInv
  <2> QED
    BY <1>2, <2>1, <2>2, <2>3 DEF ObjectChange
<1>3. ASSUME UNCHANGED <<object, born>>,
             accounts' \in [Tenants -> 0..2],
             \A t \in Tenants : accounts'[t] = 1 => accounts[t] = 1,
             keys' \subseteq keys, revoked \subseteq revoked'
      PROVE  IInv'
  <2>1. Grows
    BY <1>1, <1>3 DEF Grows, IInv, ClusterFits
  <2>2. ClusterFits'
    BY <1>1, <1>3 DEF IInv, ClusterFits, Genuine
  <2> QED
    BY <1>1, <2>1, <2>2, OthersIInv
<1>4. accounts \in [Tenants -> 0..2]
  BY DEF IInv, ClusterFits
<1>5. ASSUME NEW t \in Tenants, NEW uid \in {0, 2}, accounts' = [accounts EXCEPT ![t] = uid]
      PROVE  /\ accounts' \in [Tenants -> 0..2]
             /\ \A u \in Tenants : accounts'[u] = 1 => accounts[u] = 1
  BY <1>4, <1>5
<1> QED
  BY <1>2, <1>3, <1>4, <1>5 DEF Change

-----------------------------------------------------------------------------
(* Arrival.                                                                *)

\* The record of a client that has no request.
LEMMA IdleFacts ==
    ASSUME ClusterFits
    PROVE  /\ Idle \in RequestType
           /\ Idle.step = "idle" /\ Idle.route = "none" /\ Idle.cred = "none" /\ Idle.who = Nobody
           /\ Idle.todo = <<>> /\ Idle.copy = NoObject /\ Idle.pod = 0
           /\ Idle.status = 0 /\ Idle.event = "none" /\ Idle.did = {} /\ Idle.barred = {}
           /\ ~Idle.user /\ ~Idle.late
<1>1. /\ "idle" \in Steps /\ "none" \in Routes \cup {"none"} /\ "none" \in Credentials
      /\ Nobody \in Namespaces /\ <<>> \in Seq(Verbs) /\ NoObject \in Objects
      /\ 0 \in 0..Len(born) /\ 0 \in Statuses \cup {0} /\ "none" \in Reasons
      /\ {} \in SUBSET Effects /\ {} \in SUBSET revoked
  BY DEF Steps, Credentials, Namespaces, NoObject, Objects, Reasons, ClusterFits
<1>2. Idle \in RequestType
  BY <1>1, FALSE \in BOOLEAN DEF Idle, RequestType
<1>3. ~Idle.user /\ ~Idle.late
  BY Zenon DEF Idle
<1> QED
  BY <1>2, <1>3 DEF Idle

\* A request that has not done anything yet.
Fresh(c) ==
    /\ req'[c].copy = NoObject /\ req'[c].pod = 0 /\ req'[c].status = 0
    /\ req'[c].event = "none" /\ req'[c].did = {} /\ ~req'[c].user
    /\ req'[c].step \notin {"idle", "update", "status", "pod", "stream", "audit", "done"}

\* A request that has just arrived satisfies whatever speaks of its copy, its effects
\* and its answer.
LEMMA FreshFits ==
    ASSUME IInv, NEW c \in Clients, Fresh(c), req'[c].route \in Routes, Routes' = Routes,
           req'[c].step \in {"create", "list", "delete"} => req'[c].route = req'[c].step,
           req'[c].step = "get" => req'[c].route \notin {"create", "list"}
    PROVE  /\ RouteFits(c)' /\ CopyFits(c)' /\ LogCleared(c)'
           /\ EffectsFit(c)' /\ Apart(c)' /\ Allowed(c)' /\ Answers(c)'
<1>1. RouteFits(c)' /\ CopyFits(c)'
  BY DEF Fresh, RouteFits, CopyFits, Genuine, NoObject
<1>2. LogCleared(c)' /\ Apart(c)' /\ Allowed(c)'
  BY DEF Fresh, LogCleared, Apart, Allowed
<1>3. VerbsOf(c)' = {}
  BY DEF Fresh, VerbsOf
<1>4. EffectsFit(c)' /\ Answers(c)'
  BY <1>3 DEF Fresh, EffectsFit, Answers
<1> QED
  BY <1>1, <1>2, <1>4

\* Without authentication the handler begins at once.
LEMMA ArriveAnonymous ==
    ASSUME IInv, Grows, NEW c \in Clients, NEW route \in Routes, Mode = "anonymous",
           NEW r, r = [Idle EXCEPT !.route = route], Continue(c, r, FirstCall(r))
    PROVE  Moved(c)
<1>1. RequestType \subseteq RequestType' /\ req \in [Clients -> RequestType]
  BY TypeGrows DEF IInv
<1>2. /\ r \in RequestType /\ r.route = route /\ r.copy = NoObject /\ r.pod = 0
      /\ r.status = 0 /\ r.event = "none" /\ r.did = {}
      /\ r.user = Idle.user /\ r.late = Idle.late
  <2>1. Idle \in RequestType
    BY IdleFacts DEF IInv
  <2> QED
    BY <2>1, IdleFacts DEF IInv, RequestType
<1>3. ~r.user /\ ~r.late
  BY <1>2, IdleFacts, Zenon DEF IInv
<1>4. PICK step : step = FirstCall(r)
  OBVIOUS
<1>5. /\ step \in {"create", "list", "delete", "get"}
      /\ step \in {"create", "list", "delete"} => route = step
      /\ step = "get" => route \notin {"create", "list"}
  BY <1>2, <1>4, FirstCallFacts
<1>6. step \in Handling \cup {"account", "authorize"}
  BY <1>5 DEF Handling
<1>7. /\ req' \in [Clients -> RequestType']
      /\ \A d \in Clients : d # c => req'[d] = req[d]
      /\ req'[c].step = step
      /\ req'[c].route = r.route
      /\ req'[c].user = r.user /\ req'[c].copy = r.copy
      /\ req'[c].pod = r.pod /\ req'[c].event = r.event /\ req'[c].did = r.did
      /\ req'[c].late = r.late /\ req'[c].status = r.status
  BY <1>1, <1>2, <1>4, <1>6, ContinueFacts, ZenonT(30)
<1>8. Routes' = Routes /\ Mode' = "anonymous"
  BY ConfigStays
<1>9. ~req'[c].user /\ ~req'[c].late
  BY <1>3, <1>7
<1>10. Fresh(c)
  BY <1>2, <1>5, <1>7, <1>9 DEF Fresh
<1>11. /\ RouteFits(c)' /\ CopyFits(c)' /\ LogCleared(c)'
       /\ EffectsFit(c)' /\ Apart(c)' /\ Allowed(c)' /\ Answers(c)'
  BY <1>2, <1>5, <1>7, <1>8, <1>10, FreshFits
<1>12. IdentityFits(c)' /\ LateRefused(c)' /\ TodoFits(c)' /\ Cleared(c)'
  BY <1>5, <1>7, <1>8, <1>9 DEF IdentityFits, LateRefused, TodoFits, Cleared
<1> QED
  BY <1>7, <1>11, <1>12 DEF Moved, RequestInv

\* A request is to be authenticated, with all its permissions to be asked for.
LEMMA ArriveClient ==
    ASSUME IInv, Quiet, Grows, NEW c \in Clients, NEW route \in Routes, Mode # "anonymous",
           NEW who \in Tenants, NEW cred \in Credentials,
           NEW r \in RequestType, r.step = "authenticate", r.route = route, r.cred = cred,
           r.who = who, r.todo = RoutePermissions(route), r.copy = NoObject, r.pod = 0,
           r.status = 0, r.event = "none", r.did = {}, ~r.user,
           r.late => cred = "none" \/ accounts[who] # 1 \/ (cred = "key" /\ who \notin keys),
           req' = [req EXCEPT ![c] = r]
    PROVE  Moved(c)
<1>1. RequestType \subseteq RequestType' /\ req \in [Clients -> RequestType]
  BY TypeGrows DEF IInv
<1>2. req'[c] = r /\ \A d \in Clients : d # c => req'[d] = req[d]
  BY <1>1
<1>3. req' \in [Clients -> RequestType']
  BY <1>1
<1>4. Routes' = Routes /\ Mode' = Mode /\ accounts' = accounts /\ keys' = keys
       /\ RoutePermissions(route)' = RoutePermissions(route)
  BY ConfigStays DEF Quiet, cluster
<1>5. Fresh(c)
  BY <1>2 DEF Fresh
<1>6. /\ RouteFits(c)' /\ CopyFits(c)' /\ LogCleared(c)'
       /\ EffectsFit(c)' /\ Apart(c)' /\ Allowed(c)' /\ Answers(c)'
  BY <1>2, <1>4, <1>5, FreshFits
<1>7. Asked(c)' = RoutePermissions(route)
  BY <1>2, <1>4 DEF Asked
<1>8. IdentityFits(c)'
  BY <1>2, <1>4, <1>7 DEF IdentityFits, Handling
<1>9. LateRefused(c)'
  <2>1. r.late => Void(c)'
    BY <1>2, <1>4 DEF Void
  <2>2. /\ req'[c].late = r.late /\ req'[c].step = "authenticate"
        /\ ~req'[c].user /\ req'[c].did = {} /\ req'[c].status = 0
    BY <1>2
  <2> QED
    BY <1>4, <2>1, <2>2 DEF LateRefused
<1>10. TodoFits(c)' /\ Cleared(c)'
  BY <1>2 DEF TodoFits, Cleared, Handling
<1> QED
  BY <1>2, <1>3, <1>6, <1>8, <1>9, <1>10 DEF Moved, RequestInv

\* A request arrives: what its credentials and permissions are worth at that moment is
\* recorded.
LEMMA ArriveIInv ==
    ASSUME IInv, NEW c \in Clients, Arrive(c)
    PROVE  IInv'
<1>1. Quiet
  BY DEF Arrive, Quiet
<1>2. Grows /\ ClusterFits'
  BY <1>1, QuietGrows
<1>3. PICK route \in Routes :
        \/ /\ Mode = "anonymous"
           /\ Continue(c, [Idle EXCEPT !.route = route], FirstCall([Idle EXCEPT !.route = route]))
        \/ /\ Mode # "anonymous"
           /\ \E who \in Tenants, cred \in {"none", "token", "key"} :
                 req' = [req EXCEPT ![c] =
                   [[Idle EXCEPT !.route = route] EXCEPT
                             !.step = "authenticate", !.cred = cred, !.who = who,
                             !.todo = RoutePermissions(route),
                             !.late = \/ cred = "none"
                                      \/ accounts[who] # 1
                                      \/ cred = "key" /\ who \notin keys,
                             !.barred = {p \in revoked : p.who = who}]]
  BY Zenon DEF Arrive
<1>4. CASE /\ Mode = "anonymous"
           /\ Continue(c, [Idle EXCEPT !.route = route], FirstCall([Idle EXCEPT !.route = route]))
  BY <1>2, <1>4, ArriveAnonymous, MovedIInv
<1>5. ASSUME Mode # "anonymous", NEW who \in Tenants, NEW cred \in {"none", "token", "key"},
             req' = [req EXCEPT ![c] =
                   [[Idle EXCEPT !.route = route] EXCEPT
                             !.step = "authenticate", !.cred = cred, !.who = who,
                             !.todo = RoutePermissions(route),
                             !.late = \/ cred = "none"
                                      \/ accounts[who] # 1
                                      \/ cred = "key" /\ who \notin keys,
                             !.barred = {p \in revoked : p.who = who}]]
      PROVE  IInv'
  <2> DEFINE void == cred = "none" \/ accounts[who] # 1 \/ (cred = "key" /\ who \notin keys)
             barred == {p \in revoked : p.who = who}
             todo == RoutePermissions(route)
             r == [[Idle EXCEPT !.route = route] EXCEPT
                     !.step = "authenticate", !.cred = cred, !.who = who,
                     !.todo = todo, !.late = void, !.barred = barred]
  <2>1. req' = [req EXCEPT ![c] = r]
    BY <1>5, Zenon
  <2>2. void \in BOOLEAN /\ barred \in SUBSET revoked /\ cred \in Credentials
    BY DEF Credentials
  <2>3. todo \in Seq(Verbs)
    BY RoutePermissionsFacts DEF IInv
  <2>4. void => cred = "none" \/ accounts[who] # 1 \/ (cred = "key" /\ who \notin keys)
    OBVIOUS
  <2> HIDE DEF void, barred, todo
  <2>5. /\ Idle \in RequestType
        /\ Idle.copy = NoObject /\ Idle.pod = 0
        /\ Idle.status = 0 /\ Idle.event = "none" /\ Idle.did = {} /\ ~Idle.user
    BY IdleFacts DEF IInv
  <2>6. "authenticate" \in Steps /\ who \in Namespaces
    BY DEF Steps, Namespaces
  <2>7. r \in RequestType
    <3>1. ASSUME NEW b \in BOOLEAN
          PROVE  [[Idle EXCEPT !.route = route] EXCEPT
                     !.step = "authenticate", !.cred = cred, !.who = who,
                     !.todo = todo, !.late = b, !.barred = barred] \in RequestType
      BY <2>2, <2>3, <2>5, <2>6 DEF RequestType
    <3> QED
      BY <2>2, <3>1
  <2>8. /\ r.step = "authenticate" /\ r.route = route /\ r.cred = cred /\ r.who = who
        /\ r.todo = todo /\ r.copy = NoObject /\ r.pod = 0 /\ r.status = 0
        /\ r.event = "none" /\ r.did = {} /\ r.user = Idle.user
    BY <2>5 DEF RequestType
  <2>9. r.late = void
    BY <2>5, Zenon DEF RequestType
  <2> HIDE DEF r
  <2>10. ~r.user /\ (r.late => void) /\ r.todo = RoutePermissions(route)
    BY <2>5, <2>8, <2>9 DEF todo
  <2>11. Moved(c)
    BY <1>1, <1>2, <1>5, <2>1, <2>2, <2>4, <2>7, <2>8, <2>10, ArriveClient
  <2> QED
    BY <1>2, <2>11, MovedIInv
<1> QED
  BY <1>3, <1>4, <1>5, Zenon

-----------------------------------------------------------------------------
(* The theorems.                                                           *)

\* The invariant holds when the server starts: no request is under way.
LEMMA InitIInv ==
    ASSUME Init
    PROVE  IInv
<1> USE DEF Init
<1>1. SettingsFit
  BY DEF SettingsFit
<1>2. born \in Seq(Namespaces) /\ (born = <<>> \/ (1 \in DOMAIN born /\ born[1] \in Namespaces))
  <2>1. ASSUME NEW t \in Namespaces
        PROVE  <<t>> \in Seq(Namespaces) /\ 1 \in DOMAIN <<t>> /\ <<t>>[1] \in Namespaces
    OBVIOUS
  <2>2. CASE born = <<>>
    BY <2>2
  <2>3. CASE born # <<>>
    <3>1. PICK t \in Namespaces : born = <<t>>
      BY <2>3
    <3> QED
      BY <2>1, <3>1
  <2> QED
    BY <2>2, <2>3
<1>3. object \in Objects /\ Genuine(object)
  <2>1. CASE born = <<>>
    BY <2>1 DEF NoObject, Objects, Namespaces, Genuine
  <2>2. CASE born # <<>>
    <3>1. object = [uid |-> 1, rev |-> 1, tenant |-> born[1]]
      BY <2>2
    <3>2. object.uid = 1 /\ object.tenant = born[1] /\ object \in Objects
      BY <1>2, <2>2, <3>1 DEF Objects
    <3> QED
      BY <1>2, <2>2, <3>2 DEF Genuine
  <2> QED
    BY <2>1, <2>2
<1>4. ClusterFits
  BY <1>2, <1>3 DEF ClusterFits
<1>5. /\ Idle \in RequestType
      /\ Idle.step = "idle" /\ Idle.copy = NoObject /\ Idle.pod = 0 /\ Idle.status = 0
      /\ Idle.event = "none" /\ Idle.did = {} /\ ~Idle.user /\ ~Idle.late
  BY <1>4, IdleFacts
<1>6. req \in [Clients -> RequestType] /\ \A c \in Clients : req[c] = Idle
  BY <1>5
<1>7. ASSUME NEW c \in Clients PROVE RequestInv(c)
  <2>1. /\ req[c].step = "idle" /\ req[c].copy = NoObject /\ req[c].pod = 0 /\ req[c].status = 0
        /\ req[c].event = "none" /\ req[c].did = {} /\ ~req[c].user /\ ~req[c].late
    BY <1>5, <1>6
  <2>2. RouteFits(c) /\ CopyFits(c)
    BY <2>1 DEF RouteFits, CopyFits, Genuine
  <2>3. IdentityFits(c) /\ LateRefused(c)
    BY <2>1 DEF IdentityFits, LateRefused, Handling
  <2>4. TodoFits(c) /\ Cleared(c) /\ LogCleared(c)
    BY <2>1 DEF TodoFits, Cleared, LogCleared, Handling
  <2>5. VerbsOf(c) = {}
    BY <2>1 DEF VerbsOf
  <2>6. EffectsFit(c) /\ Apart(c) /\ Allowed(c) /\ Answers(c)
    BY <2>1, <2>5 DEF EffectsFit, Apart, Allowed, Answers
  <2> QED
    BY <2>2, <2>3, <2>4, <2>6 DEF RequestInv
<1> QED
  BY <1>1, <1>4, <1>6, <1>7 DEF IInv

\* Every step of a request, of the cache and of others keeps the invariant.
LEMMA NextIInv ==
    ASSUME IInv, [Next]_vars
    PROVE  IInv'
<1>1. CASE UNCHANGED vars
  <2>1. Quiet /\ req' = req
    BY <1>1 DEF vars, Quiet
  <2> QED
    BY <2>1, QuietGrows, OthersIInv
<1>2. ASSUME NEW c \in Clients, Handler(c) PROVE IInv'
  BY <1>2, GetTenantObjectIInv, ListIInv, CreateIInv, UpdateIInv, UpdateStatusIInv,
     DeleteIInv, FindPodIInv, StreamIInv DEF Handler
<1>3. ASSUME NEW c \in Clients, Request(c) PROVE IInv'
  BY <1>2, <1>3, ArriveIInv, AuthenticateIInv, AuthenticateBindingIInv, AuthorizeIInv,
     AuditIInv DEF Request
<1>4. CASE Done
  BY <1>1, <1>4 DEF Done
<1> QED
  BY <1>1, <1>3, <1>4, RefreshIInv, ChangeIInv DEF Next

\* IInv is an inductive invariant of the requests: wherever a request stands,
\* its copy, its identity, the permissions it was granted and the effects it
\* had fit together, whatever other requests and others did meanwhile.
THEOREM RequestsInductive == Spec => []IInv
<1>1. Init => IInv
  BY InitIInv
<1>2. IInv /\ [Next]_vars => IInv'
  BY NextIInv
<1> QED
  BY <1>1, <1>2, PTL DEF Spec

\* Type correctness of the API: requests, copies, statuses and Events are of
\* their types, Authorization always has a permission to ask for, and only
\* requests with an identity are audited.
THEOREM RequestsTyped == Spec => []TypeOK
<1>1. IInv => TypeOK
  <2> SUFFICES ASSUME IInv PROVE TypeOK
    OBVIOUS
  <2>1. ASSUME NEW obj \in Objects, Genuine(obj)
        PROVE  obj \in [uid : 0..Len(born), rev : Nat, tenant : Namespaces]
    <3>1. Len(born) \in Nat /\ DOMAIN born = 1..Len(born)
      BY DEF IInv, ClusterFits
    <3>2. obj.uid \in 0..Len(born)
      BY <2>1, <3>1 DEF Genuine, NoObject
    <3> QED
      BY <3>2 DEF Objects
  <2>2. ASSUME NEW c \in Clients
        PROVE  /\ req[c] \in RequestType
               /\ req[c].step = "authorize" => req[c].todo # <<>>
               /\ req[c].step = "audit" => req[c].user
               /\ (req[c].step \in {"audit", "done"}) = (req[c].status # 0)
    BY DEF IInv, RequestInv, TodoFits, IdentityFits, EffectsFit
  <2> QED
    BY <2>1, <2>2 DEF TypeOK, IInv, ClusterFits
<1> QED
  BY <1>1, RequestsInductive, PTL

\* With tenant isolation a request reads, changes, deletes and streams only
\* what belongs to the requester's tenant (getTenantObject,
\* tenantDeleteOptions, prepareTenantCreate), for any number of tenants.
THEOREM TenantsIsolated == Spec => []TenantsApart
<1>1. IInv => TenantsApart
  BY DEF IInv, RequestInv, Apart, TenantsApart
<1> QED
  BY <1>1, RequestsInductive, PTL

\* The tenant label that an object was created with stays with it: no route,
\* nor any order of stale reads and writes, moves an object to another tenant
\* (SetNamespace in Update).
THEOREM LabelsStay == Spec => []KeepsTenant
<1>1. IInv => KeepsTenant
  BY DEF IInv, ClusterFits, Genuine, KeepsTenant
<1> QED
  BY <1>1, RequestsInductive, PTL

\* Nothing is done with a permission that was revoked before the request
\* arrived: routePermissions covers every call of every handler.
THEOREM NothingBeyondPermissions == Spec => []AllowedOnly
<1>1. IInv => AllowedOnly
  BY DEF IInv, RequestInv, Allowed, AllowedOnly, Granted, ScopeOf
<1> QED
  BY <1>1, RequestsInductive, PTL

\* A credential that is void on arrival never has an effect (Authenticate,
\* authenticateBinding).
THEOREM VoidCredentialsRefused == Spec => []VoidIsRefused
<1>1. IInv => VoidIsRefused
  BY DEF IInv, RequestInv, LateRefused, VoidIsRefused
<1> QED
  BY <1>1, RequestsInductive, PTL

\* The status and the audit Event of a request tell the truth about its
\* writes, and a tenant's log is that of the Task that was read.
THEOREM AnswersHonest == Spec => []AnswersTrue
<1>1. IInv => AnswersTrue
  <2> SUFFICES ASSUME IInv, NEW c \in Clients
               PROVE  /\ (req[c].status \in {200, 201} /\ req[c].route \in AuditOperations) =>
                            VerbsOf(c) = Writes(c)
                      /\ req[c].status \in 400..499 \cup {503} => VerbsOf(c) = {}
                      /\ ("log" \in VerbsOf(c) /\ req[c].copy.tenant # Nobody) =>
                            req[c].pod = req[c].copy.uid
                      /\ req[c].step = "done" =>
                            /\ (req[c].event # "none") = (req[c].user /\ req[c].route \in AuditOperations)
                            /\ req[c].event = "denied" => VerbsOf(c) = {}
                            /\ req[c].event = "succeeded" => VerbsOf(c) # {}
    BY DEF AnswersTrue, VerbsOf, Writes, Asked
  <2>1. RequestInv(c)
    BY DEF IInv
  <2>2. ("log" \in VerbsOf(c) /\ req[c].copy.tenant # Nobody) => req[c].pod = req[c].copy.uid
    BY <2>1 DEF RequestInv, EffectsFit, CopyFits
  <2> QED
    BY <2>1, <2>2 DEF RequestInv, Answers
<1> QED
  BY <1>1, RequestsInductive, PTL
=============================================================================
