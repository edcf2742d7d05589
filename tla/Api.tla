-------------------------------- MODULE Api --------------------------------
(***************************************************************************)
(* The REST API around its handlers: authentication, tenant scope, audit   *)
(* and authorization (internal/auth, internal/api/middleware, in the order *)
(* of authenticationMiddleware in cmd/main.go), the tenant rules of        *)
(* internal/tenant and internal/api/handler/tenant.go, and the calls each  *)
(* handler makes to the API server.  Several requests are under way at     *)
(* once, about one object name; meanwhile the object, the accounts, the    *)
(* API keys and the permissions change.                                    *)
(*                                                                         *)
(* What the objects contain is the subject of TaskController and           *)
(* WorkflowController.  Here an object is its UID, its resource version    *)
(* and its tenant label, and a tenant is a namespace with one              *)
(* ServiceAccount.  Suspend and resume make the same calls and are one     *)
(* route, as are the list and the two statistics.                          *)
(***************************************************************************)
EXTENDS Naturals, FiniteSets, Sequences, SequencesExt

CONSTANTS
    Clients,     \* requests
    Tenants,     \* tenant namespaces
    Nobody,      \* no tenant: an absent label, the cluster scope, the default namespace
    Revocable,   \* verbs that may be revoked while requests are under way
    MaxChanges   \* bound on changes made by others than the requests

ASSUME ApiConstants ==
    /\ Nobody \notin Tenants
    /\ Revocable \subseteq {"create", "list", "get", "update", "status", "delete", "log"}
    /\ MaxChanges \in Nat

VARIABLES
    settings,  \* what the configuration turns on: auth, tenant, keysFile
    kind,      \* the resource the requests are about
    object,    \* the object stored under the name
    cache,     \* the informer's copy of it
    born,      \* tenant label each UID was created with
    accounts,  \* UID of each tenant's ServiceAccount, 0 when it is missing
    keys,      \* tenants whose API key has a binding in the file
    revoked,   \* permissions the cluster no longer grants
    changes,   \* changes made by others so far
    req        \* the requests

cluster == <<object, cache, born, accounts, keys, revoked, changes>>
vars == <<settings, kind, cluster, req>>

\* The middlewares that authenticationMiddleware puts in front of the handlers:
\* none, or authentication, audit and authorization, with the tenant scope or
\* without.
Mode == CASE ~settings.auth -> "anonymous"
          [] settings.auth /\ ~settings.tenant -> "auth"
          [] settings.auth /\ settings.tenant -> "tenant"

\* LoadConfig refuses the other settings.
LoadConfig(s) == (s.tenant => s.auth) /\ (s.keysFile => s.auth)

Namespaces == Tenants \cup {Nobody}
NoObject == [uid |-> 0, rev |-> 0, tenant |-> Nobody]

\* An effect of a request: the verb, and the tenant of the object it touched.
Effect(verb, t) == [verb |-> verb, tenant |-> t]

Idle == [step |-> "idle", route |-> "none", cred |-> "none", who |-> Nobody,
         user |-> FALSE, todo |-> <<>>, copy |-> NoObject, pod |-> 0,
         status |-> 0, event |-> "none",
         did |-> {},       \* history: the effects of the request
         late |-> FALSE,   \* history: its credential was void when it arrived
         barred |-> {}]    \* history: what it was not permitted when it arrived

-----------------------------------------------------------------------------
(* Routes.                                                                 *)

Routes == IF kind = "tasks"
          THEN {"create", "list", "get", "update", "delete", "trigger", "suspend", "logs"}
          ELSE {"create", "list", "get", "delete"}

\* Mutant: the first permission is taken for all of them.
RoutePermissionsFirst(route) ==
    CASE route \in {"update", "trigger", "suspend", "logs"} -> <<"get">>
      [] OTHER -> <<route>>

\* routePermissions, without their resource.
RoutePermissions(route) ==
    CASE route \in {"update", "suspend"} -> <<"get", "update">>
      [] route = "trigger" -> <<"get", "update", "status">>
      [] route = "logs" -> <<"get">>
      [] route = "delete" /\ kind = "workflows" -> <<"get", "delete">>
      [] OTHER -> <<route>>

AuditOperations == {"create", "update", "delete", "trigger", "suspend"}

\* The tenant scope that TenantIsolation puts in the request's context.
Scope(r) == IF Mode = "tenant" THEN r.who ELSE Nobody

\* Mutant: Audit comes before Authentication and asks for no identity.
RespondAnyone(c, r, status) ==
    req' = [req EXCEPT ![c] =
              [r EXCEPT !.status = status,
                        !.step = IF Mode # "anonymous" /\ r.route \in AuditOperations
                                 THEN "audit" ELSE "done"]]

\* A response is written.  Audit runs after the handlers below it, for the
\* requests Authentication has let through to it.
Respond(c, r, status) ==
    req' = [req EXCEPT ![c] =
              [r EXCEPT !.status = status,
                        !.step = IF r.user /\ r.route \in AuditOperations
                                 THEN "audit" ELSE "done"]]

Continue(c, r, step) == req' = [req EXCEPT ![c] = [r EXCEPT !.step = step]]

-----------------------------------------------------------------------------
(* Authentication.                                                         *)

\* Where the handler of a route begins.  Outside a tenant scope a Task is
\* deleted without being read.
FirstCall(r) ==
    CASE r.route \in {"create", "list"} -> r.route
      [] r.route = "delete" /\ kind = "tasks" /\ Scope(r) = Nobody -> "delete"
      [] OTHER -> "get"

Arrived == {c \in Clients : req[c].step # "idle"}

\* Bound: others change things only around a single request.  To a request a
\* second one is such a change, and several together are met without others.
Crowded == Cardinality(Arrived) > 1

\* A request and its credential.  The accounts of tokens and bindings have
\* the UID 1; an account created again has another.
Arrive(c) ==
    /\ req[c].step = "idle"
    /\ Arrived = {} \/ changes = 0
    /\ \E route \in Routes :
         LET r == [Idle EXCEPT !.route = route] IN
         \/ /\ Mode = "anonymous"
            /\ Continue(c, r, FirstCall(r))
         \/ /\ Mode # "anonymous"
            /\ \E who \in Tenants, cred \in {"none", "token", "key"} :
                 req' = [req EXCEPT ![c] =
                   [r EXCEPT !.step = "authenticate", !.cred = cred, !.who = who,
                             !.todo = RoutePermissions(route),
                             !.late = \/ cred = "none"
                                      \/ accounts[who] # 1
                                      \/ cred = "key" /\ who \notin keys,
                             !.barred = {p \in revoked : p.who = who}]]
    /\ UNCHANGED <<settings, kind, cluster>>

Authenticated(c, r) == Continue(c, [r EXCEPT !.user = TRUE], "authorize")

\* What ServiceAccountAuthenticator.Authenticate learns from the cluster's
\* TokenReview: a token is bound to its account's UID.
TokenReview(who) == accounts[who] = 1

\* Authentication and ServiceAccountAuthenticator.Authenticate; for an API key
\* the bindings are read from the file, afresh for each request.  Without a
\* file a key is reviewed like a token, and is none.
Authenticate(c) ==
    LET r == req[c] IN
    /\ r.step = "authenticate"
    /\ \/ r.cred = "none" /\ Respond(c, r, 401)
       \/ r.cred = "token" /\ TokenReview(r.who) /\ Authenticated(c, r)
       \/ r.cred = "token" /\ ~TokenReview(r.who) /\ Respond(c, r, 401)
       \/ r.cred = "key" /\ r.who \in keys /\ Continue(c, r, "account")
       \/ r.cred = "key" /\ r.who \notin keys /\ Respond(c, r, 401)
       \/ r.cred # "none" /\ Respond(c, r, 503)    \* review or file unavailable
    /\ UNCHANGED <<settings, kind, cluster>>

\* Mutant: an account of the bound name will do.
BoundAccountByName(who) == accounts[who] # 0

\* The account of a binding exists and has the UID of the binding.
BoundAccount(who) == accounts[who] = 1

\* authenticateBinding.
AuthenticateBinding(c) ==
    LET r == req[c] IN
    /\ r.step = "account"
    /\ \/ BoundAccount(r.who) /\ Authenticated(c, r)
       \/ ~BoundAccount(r.who) /\ Respond(c, r, 401)
       \/ Respond(c, r, 503)
    /\ UNCHANGED <<settings, kind, cluster>>

-----------------------------------------------------------------------------
(* Authorization.                                                          *)

Permission(r, verb, namespace) == [who |-> r.who, verb |-> verb, ns |-> namespace]

\* Where a permission is asked for: Pod logs in the Pod's namespace, anything
\* else in the tenant scope.
NamespaceAsked(r) == IF Head(r.todo) = "log" THEN born[r.pod] ELSE Scope(r)

\* Authorization and checkResourceAccess, one SubjectAccessReview at a time;
\* for the log of a Pod the handler asks again.
Authorize(c) ==
    LET r == req[c]
        granted == Permission(r, Head(r.todo), NamespaceAsked(r)) \notin revoked
        asked == [r EXCEPT !.todo = Tail(@)]
    IN  /\ r.step = "authorize"
        /\ \/ /\ granted
              /\ Continue(c, asked, IF asked.todo # <<>> THEN "authorize"
                                    ELSE IF r.pod # 0 THEN "stream" ELSE FirstCall(r))
           \/ ~granted /\ Respond(c, r, 403)
           \/ Respond(c, r, 503)
        /\ UNCHANGED <<settings, kind, cluster>>

-----------------------------------------------------------------------------
(* Handlers.                                                               *)

\* getTenantObject: an object of another tenant counts as missing.
Visible(obj, r) == obj # NoObject /\ (Scope(r) # Nobody => obj.tenant = Scope(r))

\* The first call of most handlers, answered from the cache.
GetTenantObject(c) ==
    LET r == req[c]
        read == [r EXCEPT !.copy = cache]
    IN  /\ r.step = "get"
        /\ \/ ~Visible(cache, r) /\ Respond(c, r, 404)
           \/ /\ Visible(cache, r)
              /\ CASE r.route = "get" ->
                        Respond(c, [r EXCEPT !.did = {Effect("get", cache.tenant)}], 200)
                   [] r.route = "logs" -> Continue(c, read, "pod")
                   [] r.route = "delete" -> Continue(c, read, "delete")
                   [] OTHER -> Continue(c, read, "update")
           \/ r.route = "update" /\ Visible(cache, r) /\ Respond(c, r, 400)   \* its body
           \/ Respond(c, r, 500)
        /\ UNCHANGED <<settings, kind, cluster>>

\* The lists and statistics, restricted to the tenant by tenantListOptions.
List(c) ==
    LET r == req[c] IN
    /\ r.step = "list"
    /\ \/ Respond(c, [r EXCEPT !.did = IF Visible(cache, r)
                                       THEN {Effect("list", cache.tenant)} ELSE {}], 200)
       \/ Respond(c, r, 500)
    /\ UNCHANGED <<settings, kind, cluster>>

\* The API server made an object of the name.
Born(t) ==
    /\ object' = [uid |-> Len(born) + 1, rev |-> 1, tenant |-> t]
    /\ born' = Append(born, t)
    /\ UNCHANGED <<cache, accounts, keys, revoked, changes>>

\* The label of a new object is the tenant scope, whatever the body says.
PrepareTenantCreate(r) == Scope(r)

\* Create.  The reply of the API server may be lost.
Create(c) ==
    LET r == req[c]
        label == PrepareTenantCreate(r)
    IN
    /\ r.step = "create"
    /\ \/ \E status \in {400, 500} : Respond(c, r, status) /\ UNCHANGED cluster
       \/ object # NoObject /\ Respond(c, r, 409) /\ UNCHANGED cluster
       \/ /\ object = NoObject
          /\ Born(label)
          /\ \E status \in {201, 500} :
               Respond(c, [r EXCEPT !.did = {Effect("create", label)}], status)
    /\ UNCHANGED <<settings, kind>>

Stored(obj) == object' = obj /\ UNCHANGED <<cache, born, accounts, keys, revoked, changes>>

\* Mutant: the label comes with the rest of the labels from the body.
LabelledBody(r, label) == IF r.route = "update" THEN label ELSE r.copy.tenant

\* SetNamespace in Update puts the label of the object back; suspend, resume
\* and trigger change no label.  The second argument is the label of the body.
Labelled(r, label) == r.copy.tenant

\* The API server takes a write of the copy it has, or answers with a conflict.
Writable(r) == object.uid = r.copy.uid /\ object.rev = r.copy.rev

\* The Update call of Update, Suspend, Resume and Trigger.
Update(c) ==
    LET r == req[c] IN
    /\ r.step = "update"
    /\ \/ /\ Writable(r)
          /\ \E label \in Namespaces :
               LET new == [object EXCEPT !.rev = @ + 1, !.tenant = Labelled(r, label)]
                   done == [r EXCEPT !.did = @ \cup {Effect("update", object.tenant)}]
               IN  /\ Stored(new)
                   /\ \/ /\ r.route = "trigger"
                         /\ Continue(c, [done EXCEPT !.copy = new], "status")
                      \/ r.route # "trigger" /\ Respond(c, done, 200)
                      \/ Respond(c, done, 500)
       \/ Respond(c, r, 500) /\ UNCHANGED cluster
    /\ UNCHANGED <<settings, kind>>

\* Mutant: the task counts as triggered although its status was not written.
UpdateStatusIgnored(c) ==
    /\ req[c].step = "status"
    /\ Respond(c, req[c], 200)
    /\ UNCHANGED <<settings, kind, cluster>>

\* The second write of Trigger, of the status.
UpdateStatus(c) ==
    LET r == req[c] IN
    /\ r.step = "status"
    /\ \/ /\ Writable(r)
          /\ Stored([object EXCEPT !.rev = @ + 1])
          /\ \E status \in {200, 500} :
               Respond(c, [r EXCEPT !.did = @ \cup {Effect("status", object.tenant)}], status)
       \/ Respond(c, r, 500) /\ UNCHANGED cluster
    /\ UNCHANGED <<settings, kind>>

\* Mutant: the object of the name is deleted, whichever it is by now.
DeleteOptionsNone(r) == TRUE

\* tenantDeleteOptions: in a tenant scope only the object that was read.
DeleteOptions(r) == Scope(r) # Nobody => object.uid = r.copy.uid

\* The Delete call.  A finalizer may keep the object for a while.
Delete(c) ==
    LET r == req[c] IN
    /\ r.step = "delete"
    /\ \/ object = NoObject /\ Respond(c, r, 404) /\ UNCHANGED cluster
       \/ /\ object # NoObject /\ DeleteOptions(r)
          /\ \E left \in {NoObject, [object EXCEPT !.rev = @ + 1]} : Stored(left)
          /\ \E status \in {200, 500} :
               Respond(c, [r EXCEPT !.did = {Effect("delete", object.tenant)}], status)
       \/ Respond(c, r, 500) /\ UNCHANGED cluster
    /\ UNCHANGED <<settings, kind>>

\* The Pods that a Task's log may come from: any Task that had the name may
\* have left Jobs and Pods in its namespace, and for a Task with a tenant label
\* ListTaskJobs and Stream drop those of another controller.  A Pod is named by
\* the UID of its Task.
PodsOf(task) ==
    {u \in DOMAIN born : /\ born[u] = task.tenant
                         /\ task.tenant # Nobody => u = task.uid}

\* Stream up to the choice of a Pod: the last of a list without an order.
FindPod(c) ==
    LET r == req[c] IN
    /\ r.step = "pod"
    /\ \/ \E u \in PodsOf(r.copy) :
            LET found == [r EXCEPT !.pod = u] IN
            \/ Mode = "anonymous" /\ Continue(c, found, "stream")
            \/ Mode # "anonymous"
               /\ Continue(c, [found EXCEPT !.todo = <<"log">>], "authorize")
       \/ \E status \in {404, 500} : Respond(c, r, status)
    /\ UNCHANGED <<settings, kind, cluster>>

\* The rest of Stream; once lines were sent the status stays 200.
Stream(c) ==
    LET r == req[c] IN
    /\ r.step = "stream"
    /\ \/ Respond(c, [r EXCEPT !.did = {Effect("log", born[r.pod])}], 200)
       \/ Respond(c, r, 500)
    /\ UNCHANGED <<settings, kind, cluster>>

-----------------------------------------------------------------------------
(* Audit.                                                                  *)

Reason(status) ==
    CASE status = 403 -> "denied"
      [] status # 403 /\ status >= 400 -> "failed"
      [] OTHER -> "succeeded"

\* The second half of Audit: an Event, which may get lost.
Audit(c) ==
    /\ req[c].step = "audit"
    /\ \E event \in {Reason(req[c].status), "lost"} :
         req' = [req EXCEPT ![c].step = "done", ![c].event = event]
    /\ UNCHANGED <<settings, kind, cluster>>

-----------------------------------------------------------------------------
(* What others do.                                                         *)

\* The informer catches up.
Refresh ==
    /\ cache # object
    /\ Arrived = {} \/ \E c \in Arrived : req[c].step # "done"
    /\ cache' = object
    /\ UNCHANGED <<settings, kind, object, born, accounts, keys, revoked, changes, req>>

ObjectChange ==
    \/ object # NoObject /\ object' = NoObject /\ UNCHANGED born
    \/ object # NoObject /\ object' = [object EXCEPT !.rev = @ + 1] /\ UNCHANGED born
    \/ \E t \in Namespaces :
         /\ object' = [uid |-> Len(born) + 1, rev |-> 1, tenant |-> t]
         /\ born' = Append(born, t)

\* Controllers and other users change the object; accounts are deleted or made
\* again, bindings removed, permissions revoked.
Change ==
    /\ changes < MaxChanges
    /\ ~Crowded /\ \A c \in Arrived : req[c].step # "done"
    /\ changes' = changes + 1
    /\ \/ ObjectChange /\ UNCHANGED <<accounts, keys, revoked>>
       \/ /\ Mode # "anonymous"
          /\ \/ \E t \in Tenants, uid \in {0, 2} :
                  /\ accounts[t] = 1
                  /\ accounts' = [accounts EXCEPT ![t] = uid]
                  /\ UNCHANGED <<keys, revoked>>
             \/ \E t \in keys : keys' = keys \ {t} /\ UNCHANGED <<accounts, revoked>>
             \/ \E t \in Tenants, verb \in Revocable, ns \in Namespaces :
                  /\ verb = "log" \/ ns = Scope([who |-> t])
                  /\ revoked' = revoked \cup {Permission([who |-> t], verb, ns)}
                  /\ UNCHANGED <<accounts, keys>>
          /\ UNCHANGED <<object, born>>
    /\ UNCHANGED <<settings, kind, cache, req>>

-----------------------------------------------------------------------------

Init ==
    /\ settings \in {s \in [auth : BOOLEAN, tenant : BOOLEAN, keysFile : BOOLEAN] : LoadConfig(s)}
    /\ kind \in {"tasks", "workflows"}
    /\ born \in {<<>>} \cup {<<t>> : t \in Namespaces}
    /\ object = IF born = <<>> THEN NoObject ELSE [uid |-> 1, rev |-> 1, tenant |-> born[1]]
    /\ cache = object
    /\ accounts = [t \in Tenants |-> 1]
    /\ keys = IF settings.keysFile THEN Tenants ELSE {}
    /\ revoked = {}
    /\ changes = 0
    /\ req = [c \in Clients |-> Idle]

Handler(c) ==
    \/ GetTenantObject(c) \/ List(c) \/ Create(c) \/ Update(c) \/ UpdateStatus(c)
    \/ Delete(c) \/ FindPod(c) \/ Stream(c)

Request(c) ==
    \/ Arrive(c) \/ Authenticate(c) \/ AuthenticateBinding(c) \/ Authorize(c)
    \/ Handler(c) \/ Audit(c)

Done == Arrived # {} /\ (\A c \in Arrived : req[c].step = "done") /\ UNCHANGED vars

Next == (\E c \in Clients : Request(c)) \/ Refresh \/ Change \/ Done

Spec == Init /\ [][Next]_vars

-----------------------------------------------------------------------------
(* Properties.                                                             *)

Verbs == {"create", "list", "get", "update", "status", "delete", "log"}
Credentials == {"none", "token", "key"}
Steps == {"idle", "authenticate", "account", "authorize", "get", "list", "create", "update",
          "status", "delete", "pod", "stream", "audit", "done"}
Statuses == {200, 201, 400, 401, 403, 404, 409, 500, 503}
Reasons == {"none", "succeeded", "failed", "denied", "lost"}
Objects == [uid : Nat, rev : Nat, tenant : Namespaces]
Effects == [verb : Verbs, tenant : Namespaces]

RequestType ==
    [step : Steps, route : Routes \cup {"none"}, cred : Credentials, who : Namespaces,
     user : BOOLEAN, todo : Seq(Verbs), copy : Objects, pod : 0..Len(born),
     status : Statuses \cup {0}, event : Reasons, did : SUBSET Effects, late : BOOLEAN,
     barred : SUBSET revoked]

\* Types; a request waits for its permissions only while some are left, is
\* audited only under an identity, and has a status once it was answered.
TypeOK ==
    /\ object \in [uid : 0..Len(born), rev : Nat, tenant : Namespaces]
    /\ cache \in [uid : 0..Len(born), rev : Nat, tenant : Namespaces]
    /\ accounts \in [Tenants -> 0..2] /\ keys \subseteq Tenants
    /\ \A c \in Clients :
         /\ req[c] \in RequestType
         /\ req[c].step = "authorize" => req[c].todo # <<>>
         /\ req[c].step = "audit" => req[c].user
         /\ (req[c].step \in {"audit", "done"}) = (req[c].status # 0)

\* With tenant isolation, whatever a request reads, lists, changes, deletes or
\* streams belongs to the requester's tenant, although the object may be
\* replaced by another tenant's between the handler's read and its call
\* (getTenantObject, tenantDeleteOptions, prepareTenantCreate).
TenantsApart ==
    settings.tenant => \A c \in Clients : \A e \in req[c].did : e.tenant = req[c].who

\* No request moves an object to another tenant: the label an object was
\* created with stays for as long as the object does, in every mode and
\* whatever labels an update carries (SetNamespace in Update).
KeepsTenant == object # NoObject => object.tenant = born[object.uid]

\* A permission that was revoked before a request arrived is never used by it:
\* permissions are not cached, and every call of a handler is covered by one
\* that routePermissions or AuthorizeResource asks for.
AllowedOnly ==
    \A c \in Clients : \A e \in req[c].did :
        LET ns == IF e.verb = "log" THEN e.tenant ELSE Scope(req[c])
        IN  Mode # "anonymous" => Permission(req[c], e.verb, ns) \notin req[c].barred

\* A credential that is void when the request arrives has no effect and is
\* never told about the object: a removed binding, an account that is gone or
\* was made again under its name (docs/API.md: such a key no longer works).
VoidIsRefused ==
    \A c \in Clients : req[c].late =>
        /\ ~req[c].user /\ req[c].did = {}
        /\ req[c].status \in {0, 401, 503}

\* What the client and the auditor are told is true, whatever came between and
\* whichever reply was lost.  A success means that every write of the operation
\* was made, and any error but 500 that none was; the log of a Task with a
\* tenant label is not that of an earlier Task of the same name; each write
\* under an identity, a denied one too, has its Event or lost it, and the Event
\* speaks of success only if something was written (Audit, docs/API.md 1.5).
AnswersTrue ==
    \A c \in Clients : LET r == req[c]
                         verbs == {e.verb : e \in r.did} IN
        /\ (r.status \in {200, 201} /\ r.route \in AuditOperations) =>
              verbs = ToSet(RoutePermissions(r.route)) \ {"get"}
        /\ r.status \in 400..499 \cup {503} => verbs = {}
        /\ ("log" \in verbs /\ r.copy.tenant # Nobody) => r.pod = r.copy.uid
        /\ r.step = "done" =>
              /\ (r.event # "none") = (r.user /\ r.route \in AuditOperations)
              /\ r.event = "denied" => verbs = {}
              /\ r.event = "succeeded" => verbs # {}
=============================================================================
