------------------------------- MODULE Gateway -------------------------------
(***************************************************************************)
(* The HTTP interface of the api-gateway: authentication and rate limit,   *)
(* the handlers for users, tokens, API keys and plugin configuration, the  *)
(* audit log, and a restart.  A handler asks the brain or plugin storage   *)
(* and waits five seconds; what it asked for may still happen after that.  *)
(*                                                                         *)
(* The gateway is one of the plugins that may be running beside the        *)
(* knowledge pipeline; both work through the handlers of the brain.        *)
(***************************************************************************)
EXTENDS Knowledge, Accounts, RateLimiter

CONSTANTS
  Clients,        \* connections of HTTP clients
  GatewayLoads,   \* bounds, one of them per behaviour: the routes requested, the
                  \* connections, requests, clock ticks and restarts
  RegularRpm, AdminRpm,
  TokenTtl,       \* jwt_ttl, in ticks
  MaxEntries,     \* max_entries of the audit log
  MaxRevoked      \* how many revocations the gateway keeps

(* The subjects that credentials have here, and the rates they may have;    *)
(* every load is one of connections that exist.                             *)
ASSUME GatewayAssumption ==
  /\ {"api-key", "api-user", "ada", "bob"} \subseteq Names
  /\ RegularRpm \in Rates /\ AdminRpm \in Rates
  /\ \A l \in GatewayLoads : l.clients \subseteq Clients

VARIABLES
  http,      \* client -> the request it has made
  tokens,    \* the JWTs handed out
  revoked,   \* their ids that were revoked
  audit,     \* the audit log's buffer
  requests, restarts,
  load,      \* the bounds of this behaviour
  told       \* history: the changes that clients were told of

gatewayVars == <<accountVars, rateVars, http, tokens, revoked, audit, requests, restarts, load, told>>

Running == "api-gateway" \in DOMAIN queue

Nobody == [subject |-> "unknown", role |-> "none", user |-> 0]
ApiKeyHolder == [subject |-> "api-key", role |-> "admin", user |-> 0]
IdleClient == [st |-> "idle", who |-> Nobody, op |-> "none", arg |-> 0, job |-> 0]

is_admin(who) == who.role = "admin"

(* The buffer keeps the most recent entries.  Each entry is also published  *)
(* to brain.audit.store, in an envelope, where the brain expects a bare     *)
(* request: its handler gives up at once.                                   *)
log(action) ==
  LET all == Append(audit, action)
  IN  audit' = IF Len(all) > MaxEntries THEN Tail(all) ELSE all

-----------------------------------------------------------------------------
(* A token is known by its number. *)
generate_token(who) == [jti |-> Cardinality(tokens) + 1, who |-> who, exp |-> clock + TokenTtl]

validate_token(t) == t.exp >= clock /\ t.jti \notin revoked

(* A credential is "none", the API key, or a token. *)
authenticate(cred) ==
  IF cred \in tokens THEN IF validate_token(cred) THEN cred.who ELSE Nobody
  ELSE IF cred = ApiKeyHolder THEN ApiKeyHolder ELSE Nobody

effective_rpm(who) == IF is_admin(who) THEN AdminRpm ELSE RegularRpm

(* The response is sent and the client may make its next request. *)
Respond(c) == http' = [http EXCEPT ![c] = IdleClient]

(* A request whose credential is refused, or whose subject is out of        *)
(* tokens, ends here.                                                       *)
auth_rate_limit_middleware(c, cred) ==
  LET who == authenticate(cred)
      rpm == effective_rpm(who)
  IN  /\ Running /\ requests < load.requests
      /\ http[c].st = "idle"
      /\ requests' = requests + 1
      /\ \/ /\ who = Nobody
            /\ log("auth.failed") /\ Respond(c) /\ UNCHANGED rateVars
         \/ /\ who # Nobody
            /\ check_rate_limit(who.subject, rpm)
            /\ IF Allowed(who.subject, rpm)
               THEN http' = [http EXCEPT ![c] = [IdleClient EXCEPT !.st = "accepted", !.who = who]]
                    /\ UNCHANGED audit
               ELSE log("rate_limit.exceeded") /\ Respond(c)
      /\ UNCHANGED <<knowledgeVars, accountVars, tokens, revoked, restarts, load, told>>

-----------------------------------------------------------------------------
(* A handler asks another service and waits for its reply. *)
Asks(c, op, kind, arg) ==
  /\ http[c].st = "accepted"
  /\ Request(kind, arg)
  /\ http' = [http EXCEPT ![c] = [@ EXCEPT !.st = "asked", !.op = op, !.arg = arg, !.job = next]]
  /\ UNCHANGED <<db, queue, faults, inbound, plugin, loader, contexts, recent, feedback,
                 users, scopes, api_keys, storage, rateVars,
                 tokens, revoked, audit, requests, restarts, load, told>>

(* What can be answered at once, a refusal in most cases. *)
RespondsAtOnce(c) ==
  /\ http[c].st = "accepted"
  /\ Respond(c)
  /\ UNCHANGED <<knowledgeVars, accountVars, rateVars, requests, restarts, load, told>>

RespondsOnly(c) == RespondsAtOnce(c) /\ UNCHANGED <<tokens, revoked, audit>>

HasUser(c) == http[c].who.user # 0
AsAdmin(c) == is_admin(http[c].who)

(* The requests, each with the password or role that tells it apart. *)
Fresh == requests

register_handler(c, name) ==
  Asks(c, "user.registered", "user_create", [name |-> name, password |-> Fresh])

(* POST /auth/token, with a name and password or with the API key. *)
PasswordLogin(c, name, password) ==
  Asks(c, "auth.login", "user_get", [id |-> 0, name |-> name, password |-> password])

ApiKeyToken(c) ==
  /\ RespondsAtOnce(c)
  /\ tokens' = tokens \cup {generate_token([subject |-> "api-user", role |-> "admin", user |-> 0])}
  /\ log("auth.token_issued")
  /\ UNCHANGED revoked

revoke_token_handler(c, t) ==
  /\ validate_token(t) /\ (AsAdmin(c) \/ http[c].who.user = t.who.user)
  /\ RespondsAtOnce(c)
  /\ revoked' = revoked \cup {t.jti}
  /\ log("auth.token_revoked")
  /\ UNCHANGED tokens

get_my_profile(c) ==
  IF HasUser(c) THEN Asks(c, "read", "user_get", [id |-> http[c].who.user, name |-> "none"]) ELSE RespondsOnly(c)

update_my_profile(c) ==
  IF HasUser(c)
  THEN Asks(c, "profile", "user_update", [user |-> http[c].who.user, with |-> [password |-> Fresh]])
  ELSE RespondsOnly(c)

list_users_handler(c) ==
  IF AsAdmin(c) THEN Asks(c, "read", "user_list", [id |-> 0]) ELSE RespondsOnly(c)

get_user_handler(c, id) ==
  IF AsAdmin(c) THEN Asks(c, "read", "user_get", [id |-> id, name |-> "none"]) ELSE RespondsOnly(c)

update_user_role_handler(c, id) ==
  IF AsAdmin(c)
  THEN Asks(c, "user.role_updated", "user_update", [user |-> id, with |-> [role |-> "admin"]])
  ELSE RespondsOnly(c)

delete_user_handler(c, id) ==
  IF AsAdmin(c) THEN Asks(c, "user.deleted", "user_delete", [id |-> id]) ELSE RespondsOnly(c)

create_apikey_handler(c) ==
  IF HasUser(c) THEN Asks(c, "apikey.created", "apikey_create", [id |-> http[c].who.user]) ELSE RespondsOnly(c)

list_apikeys_handler(c) ==
  IF HasUser(c) THEN Asks(c, "read", "apikey_list", [id |-> http[c].who.user]) ELSE RespondsOnly(c)

revoke_apikey_handler(c, key) ==
  IF HasUser(c) THEN Asks(c, "apikey.revoked", "apikey_revoke", [id |-> key]) ELSE RespondsOnly(c)

get_audit_log(c) == RespondsOnly(c)

storage_get(c) == Asks(c, "read", "storage_get", [key |-> "config"])
storage_set(c) == Asks(c, "storage", "storage_set", [key |-> "config", value |-> {Fresh}])
storage_delete(c) == Asks(c, "storage", "storage_delete", [key |-> "config"])
storage_list(c) == Asks(c, "read", "storage_list", [key |-> "config"])

(* The schema comes from the registry, in time or not, and fits or not.     *)
update_plugin_config(c) ==
  \/ Asks(c, "config", "storage_set", [key |-> "config", value |-> {Fresh}])
  \/ RespondsOnly(c)

-----------------------------------------------------------------------------
(* The rest of a handler, when the reply is there: a change is logged and   *)
(* the client is told of it.                                                *)
Logged == {"user.registered", "user.role_updated", "user.deleted", "apikey.created", "apikey.revoked"}

Login(c, user) ==
  IF user.status = "active" /\ user.password = http[c].arg.password
  THEN /\ tokens' = tokens \cup {generate_token([subject |-> user.name, role |-> user.role, user |-> user.id])}
       /\ log("auth.login")
  ELSE /\ UNCHANGED tokens
       /\ IF user.status = "active" THEN log("auth.login_failed") ELSE UNCHANGED audit

(* What a client learns from the response to a change. *)
Acknowledged(op, arg, id) ==
  CASE op = "user.registered" -> {[op |-> op, id |-> id, name |-> arg.name]}
    [] op \in {"profile", "user.role_updated"} -> {[op |-> op, id |-> arg.user, name |-> "none"]}
    [] op \in {"user.deleted", "apikey.revoked"} -> {[op |-> op, id |-> arg.id, name |-> "none"]}
    [] op = "apikey.created" -> {[op |-> op, id |-> id, name |-> "none"]}
    [] OTHER -> {}

Answered(c) ==
  LET op == http[c].op
      job == http[c].job
      answer == Head(calls[job])
  IN  /\ http[c].st = "asked" /\ calls[job] # <<>>
      /\ calls' = [id \in DOMAIN calls \ {job} |-> calls[id]]
      /\ Respond(c)
      /\ CASE op = "auth.login" ->
                /\ IF answer.ok THEN Login(c, answer.user) ELSE log("auth.login_failed") /\ UNCHANGED tokens
                /\ UNCHANGED told
           [] op # "auth.login" /\ answer.ok ->
                /\ IF op \in Logged THEN log(op) ELSE UNCHANGED audit
                /\ told' = told \cup Acknowledged(op, http[c].arg, answer.id)
                /\ UNCHANGED tokens
           [] OTHER -> UNCHANGED <<tokens, audit, told>>
      /\ UNCHANGED <<knowledgeVars,
                     users, scopes, api_keys, storage, rateVars, revoked, requests, restarts, load>>

(* No reply within five seconds. *)
TimesOut(c) ==
  /\ http[c].st = "asked"
  /\ calls' = [id \in DOMAIN calls \ {http[c].job} |-> calls[id]]
  /\ Respond(c)
  /\ IF http[c].op = "auth.login" THEN log("auth.login_failed") ELSE UNCHANGED audit
  /\ UNCHANGED <<knowledgeVars, users, scopes, api_keys, storage, rateVars,
                 tokens, revoked, requests, restarts, load, told>>
-----------------------------------------------------------------------------
(* Maintenance.  Which revocations go when there are too many is a matter   *)
(* of the order of a hash set.                                              *)
cleanup_revocations ==
  IF Cardinality(revoked) > MaxRevoked THEN {R \in SUBSET revoked : Cardinality(R) = MaxRevoked} ELSE {revoked}

save_revocations(kept) ==
  \/ storage' = [storage EXCEPT !.revoked = kept] /\ NoFault
  \/ UNCHANGED storage /\ Fault

JwtMaintenance ==
  /\ Running /\ "revoke" \in load.routes
  /\ \E kept \in cleanup_revocations : revoked' = kept /\ save_revocations(kept)
  /\ UNCHANGED <<db, jobs, queue, next, inbound, plugin, loader, contexts, recent, feedback,
                 users, scopes, api_keys, calls, rateVars, http, tokens, audit, requests, restarts, load, told>>

RateMaintenance ==
  /\ Running /\ load.ticks > 0 /\ Maintain
  /\ UNCHANGED <<knowledgeVars, accountVars, http, tokens, revoked, audit, requests, restarts, load, told>>

TimePasses ==
  /\ Running /\ clock < load.ticks /\ ClockTick
  /\ UNCHANGED <<knowledgeVars, accountVars, http, tokens, revoked, audit, requests, restarts, load, told>>

restore_revocations == {storage.revoked, {}}

(* The gateway is started again: its connections and the requests on them   *)
(* are gone, tokens stay valid, and the brain finishes what it was asked.   *)
Restart ==
  /\ Running /\ restarts < load.restarts
  /\ restarts' = restarts + 1
  /\ http' = [c \in Clients |-> IdleClient] /\ calls' = <<>> /\ audit' = <<>>
  /\ restore_state
  /\ revoked' \in restore_revocations
  /\ UNCHANGED <<knowledgeVars, users, scopes, api_keys, storage, tokens, requests, load, told>>

(* Somebody on the bus asks the brain about a key. *)
ValidateRequested(key) ==
  /\ Running /\ requests < load.requests
  /\ requests' = requests + 1
  /\ Spawn("apikey_validate", [id |-> key])
  /\ UNCHANGED <<db, queue, faults, inbound, plugin, loader, contexts, recent, feedback,
                 accountVars, rateVars, http, tokens, revoked, audit, restarts, load, told>>

-----------------------------------------------------------------------------
UserIds == {u.id : u \in users}
KeyIds == {k.id : k \in api_keys}

(* One user is registered already and has a token; its id is not one of a   *)
(* task of this behaviour.                                                  *)
FirstUser == -1

GatewayInit ==
  /\ Init /\ RateInit
  /\ users = {[id |-> FirstUser, name |-> "ada", password |-> 0, role |-> "user", status |-> "active"]}
  /\ scopes = {FirstUser} /\ api_keys = {} /\ calls = <<>>
  /\ storage = [revoked |-> {}, config |-> {}]
  /\ http = [c \in Clients |-> IdleClient]
  /\ tokens = {[jti |-> 1, who |-> [subject |-> "ada", role |-> "user", user |-> FirstUser], exp |-> TokenTtl]}
  /\ revoked = {} /\ audit = <<>> /\ requests = 0 /\ restarts = 0 /\ told = {}
  /\ load \in GatewayLoads /\ (~Running => load = CHOOSE l \in GatewayLoads : TRUE)

Requested(r) == r \in load.routes

Handler(c) ==
  \/ Requested("register") /\ \E name \in {"ada", "bob"} : register_handler(c, name)
  \/ Requested("token") /\ \E password \in {0, 1} : PasswordLogin(c, "ada", password)
  \/ Requested("token") /\ ApiKeyToken(c)
  \/ Requested("revoke") /\ \E t \in tokens : revoke_token_handler(c, t)
  \/ Requested("me") /\ (get_my_profile(c) \/ update_my_profile(c))
  \/ Requested("users") /\ (list_users_handler(c) \/ \E id \in UserIds : get_user_handler(c, id))
  \/ Requested("role") /\ \E id \in UserIds : update_user_role_handler(c, id)
  \/ Requested("delete") /\ \E id \in UserIds : delete_user_handler(c, id)
  \/ Requested("apikeys") /\ (create_apikey_handler(c) \/ list_apikeys_handler(c))
  \/ Requested("apikeys") /\ \E key \in KeyIds : revoke_apikey_handler(c, key)
  \/ Requested("audit") /\ get_audit_log(c)
  \/ Requested("storage") /\ (storage_get(c) \/ storage_set(c) \/ storage_delete(c) \/ storage_list(c))
  \/ Requested("config") /\ update_plugin_config(c)

AccountStep ==
  /\ NextAccounts
  /\ UNCHANGED <<inbound, plugin, loader, contexts, recent, feedback, rateVars,
                 http, tokens, revoked, audit, requests, restarts, load, told>>

GatewayStep ==
  \/ \E c \in load.clients, cred \in tokens \cup {ApiKeyHolder, Nobody} : auth_rate_limit_middleware(c, cred)
  \/ \E c \in Clients : Handler(c) \/ Answered(c) \/ TimesOut(c)
  \/ AccountStep
  \/ \E key \in KeyIds : ValidateRequested(key)
  \/ RateMaintenance \/ JwtMaintenance \/ TimePasses \/ Restart

-----------------------------------------------------------------------------
(* That a change a client was told of is in force. *)
Honoured(t) ==
  /\ t.op = "user.registered" => \E u \in users : u.id = t.id /\ {v \in users : v.name = t.name} = {u}
  /\ t.op = "user.role_updated" => \E u \in users : u.id = t.id /\ u.role = "admin"
  /\ t.op = "profile" => \E u \in users : u.id = t.id /\ u.password # 0
  /\ t.op = "user.deleted" => \E u \in users : u.id = t.id /\ u.status = "deleted"
  /\ t.op = "apikey.created" => \E k \in api_keys : k.id = t.id
  /\ t.op = "apikey.revoked" => \E k \in api_keys : k.id = t.id /\ k.revoked

(* What a client was told stays true, whatever the other clients do at the  *)
(* same time and whatever requests that were given up still do later: a     *)
(* name belongs to the one user whose registration was confirmed, a         *)
(* deleted user and a revoked key stay so, and neither a change of password *)
(* nor one of role undoes the other.                                        *)
AccountsHonoured == \A t \in told : Honoured(t)
=============================================================================
