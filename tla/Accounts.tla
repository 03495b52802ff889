------------------------------ MODULE Accounts ------------------------------
(***************************************************************************)
(* The brain's handlers for users and API keys, and the plugin storage     *)
(* service.  They are called by request/reply: the caller gives up after a *)
(* while, the handler does not, and its reply is then for nobody.          *)
(*                                                                         *)
(* A user's password and role are what tells one update from another.      *)
(***************************************************************************)
EXTENDS Brain

VARIABLES
  users,     \* the collection of users
  scopes,    \* the private scopes made for new users
  api_keys,  \* the collection of API keys
  storage,   \* plugin storage: the gateway's revocations, a plugin's config
  calls      \* by the id of its task, the replies to a request somebody waits for

accountVars == <<users, scopes, api_keys, storage, calls>>

NoUser == [id |-> 0, name |-> "none", password |-> 0, role |-> "none", status |-> "none"]

(* A reply: whether it worked, the id of what was created, the user found.  *)
(* Lists and values that only go on to the client are left out.             *)
Failed == [ok |-> FALSE, id |-> 0, user |-> NoUser]
Ok == [Failed EXCEPT !.ok = TRUE]
OkCreated(id) == [Ok EXCEPT !.id = id]
OkFound(user) == [Ok EXCEPT !.user = user]

(* The reply reaches the caller that still waits for it. *)
Reply(j, answer) ==
  calls' = [id \in DOMAIN calls |-> IF id = j.id THEN Append(calls[id], answer) ELSE calls[id]]

(* A handler that ends in an error does not reply. *)
NoReply == UNCHANGED calls

Request(kind, arg) ==
  /\ Spawn(kind, arg)
  /\ calls' = [id \in DOMAIN calls \cup {next} |-> IF id = next THEN <<>> ELSE calls[id]]

-----------------------------------------------------------------------------
(* brain.user.create: a look whether the name is taken, the user's scope,   *)
(* and the user, in three calls.                                            *)
CheckUsername(j) ==
  /\ At(j, "user_create", "start")
  /\ \/ /\ \E u \in users : u.name = j.arg.name
        /\ Reply(j, Failed) /\ Ends(j) /\ NoFault
     \/ /\ ~\E u \in users : u.name = j.arg.name
        /\ Goes(j, "scope") /\ NoReply /\ NoFault
     \/ Ends(j) /\ NoReply /\ Fault
  /\ UNCHANGED <<db, queue, next, users, scopes, api_keys, storage>>

CreateUserScope(j) ==
  /\ At(j, "user_create", "scope")
  /\ \/ scopes' = scopes \cup {j.id} /\ NoFault
     \/ UNCHANGED scopes /\ Fault
  /\ Goes(j, "insert")
  /\ UNCHANGED <<db, queue, next, users, api_keys, storage, calls>>

\* Mutant: the index on the username is not a unique one.
UsernameAnyway(name) == TRUE

(* The unique index on users.username, over the deleted ones too. *)
UsernameFree(name) == ~\E u \in users : u.name = name

InsertUser(j) ==
  /\ At(j, "user_create", "insert")
  /\ \/ /\ UsernameFree(j.arg.name)
        /\ users' = users \cup {[id |-> j.id, name |-> j.arg.name, password |-> j.arg.password,
                                 role |-> "user", status |-> "active"]}
        /\ Reply(j, OkCreated(j.id)) /\ NoFault
     \/ ~UsernameFree(j.arg.name) /\ Reply(j, Failed) /\ NoFault /\ UNCHANGED users
     \/ Reply(j, Failed) /\ Fault /\ UNCHANGED users
  /\ Ends(j)
  /\ UNCHANGED <<db, queue, next, scopes, api_keys, storage>>

-----------------------------------------------------------------------------
(* One read of the database, whose failure leaves the caller waiting.       *)
ReplyRead(j, kind, answer) ==
  /\ At(j, kind, "start")
  /\ \/ Reply(j, answer) /\ NoFault
     \/ NoReply /\ Fault
  /\ Ends(j)
  /\ UNCHANGED <<db, queue, next, users, scopes, api_keys, storage>>

NotDeleted == {u \in users : u.status # "deleted"}

handle_user_get(j) ==
  /\ j.kind = "user_get"
  /\ LET found == {u \in NotDeleted : u.id = j.arg.id \/ u.name = j.arg.name}
     IN  ReplyRead(j, "user_get", IF found = {} THEN Failed ELSE OkFound(CHOOSE u \in found : TRUE))

handle_user_list(j) ==
  j.kind = "user_list" /\ ReplyRead(j, "user_list", Ok)

handle_apikey_list(j) == j.kind = "apikey_list" /\ ReplyRead(j, "apikey_list", Ok)

(* An UPDATE by key with the fields that were given; what is not there      *)
(* cannot be updated, and every failure is told to the caller.              *)
With(x, fields) == [f \in DOMAIN x |-> IF f \in DOMAIN fields THEN fields[f] ELSE x[f]]
Updated(S, id, fields) == {IF x.id = id THEN With(x, fields) ELSE x : x \in S}

handle_user_update(j) ==
  /\ At(j, "user_update", "start")
  /\ \/ /\ \E u \in users : u.id = j.arg.user
        /\ users' = Updated(users, j.arg.user, j.arg.with)
        /\ Reply(j, Ok) /\ NoFault
     \/ /\ ~\E u \in users : u.id = j.arg.user
        /\ Reply(j, Failed) /\ NoFault /\ UNCHANGED users
     \/ Reply(j, Failed) /\ Fault /\ UNCHANGED users
  /\ Ends(j)
  /\ UNCHANGED <<db, queue, next, scopes, api_keys, storage>>

(* The user's scope, keys and content stay. *)
handle_user_delete(j) ==
  /\ At(j, "user_delete", "start")
  /\ \/ /\ \E u \in users : u.id = j.arg.id
        /\ users' = Updated(users, j.arg.id, [status |-> "deleted"])
        /\ Reply(j, Ok) /\ NoFault
     \/ /\ ~\E u \in users : u.id = j.arg.id
        /\ Reply(j, Failed) /\ NoFault /\ UNCHANGED users
     \/ Reply(j, Failed) /\ Fault /\ UNCHANGED users
  /\ Ends(j)
  /\ UNCHANGED <<db, queue, next, scopes, api_keys, storage>>

handle_apikey_create(j) ==
  /\ At(j, "apikey_create", "start")
  /\ \/ /\ api_keys' = api_keys \cup {[id |-> j.id, user |-> j.arg.id, revoked |-> FALSE, used |-> FALSE]}
        /\ Reply(j, OkCreated(j.id)) /\ NoFault
     \/ Reply(j, Failed) /\ Fault /\ UNCHANGED api_keys
  /\ Ends(j)
  /\ UNCHANGED <<db, queue, next, users, scopes, storage>>

handle_apikey_revoke(j) ==
  /\ At(j, "apikey_revoke", "start")
  /\ \/ /\ \E k \in api_keys : k.id = j.arg.id
        /\ api_keys' = Updated(api_keys, j.arg.id, [revoked |-> TRUE])
        /\ Reply(j, Ok) /\ NoFault
     \/ /\ ~\E k \in api_keys : k.id = j.arg.id
        /\ Reply(j, Failed) /\ NoFault /\ UNCHANGED api_keys
     \/ Reply(j, Failed) /\ Fault /\ UNCHANGED api_keys
  /\ Ends(j)
  /\ UNCHANGED <<db, queue, next, users, scopes, storage>>

(* brain.apikey.validate looks the key up and then notes that it was used,  *)
(* on whatever has become of it in between.                                 *)
FindKey(j) ==
  /\ At(j, "apikey_validate", "start")
  /\ \/ /\ \E k \in api_keys : k.id = j.arg.id /\ ~k.revoked
        /\ Goes(j, "used") /\ NoFault
     \/ /\ ~\E k \in api_keys : k.id = j.arg.id /\ ~k.revoked
        /\ Ends(j) /\ NoFault
     \/ Ends(j) /\ Fault
  /\ UNCHANGED <<db, queue, next, accountVars>>

NoteKeyUsed(j) ==
  /\ At(j, "apikey_validate", "used")
  /\ \/ api_keys' = Updated(api_keys, j.arg.id, [used |-> TRUE]) /\ NoFault
     \/ UNCHANGED api_keys /\ Fault
  /\ Ends(j)
  /\ UNCHANGED <<db, queue, next, users, scopes, storage, calls>>

-----------------------------------------------------------------------------
(* Plugin storage.  One task serves its requests, those of a kind in order; *)
(* a failure of the database is a reply like any other (an empty list, for  *)
(* storage.list).                                                           *)
InTurn(j, kind) ==
  /\ At(j, kind, "start")
  /\ \A k \in jobs : k.kind = kind => j.id <= k.id
  /\ Ends(j)
  /\ UNCHANGED <<db, queue, next, users, scopes, api_keys>>

handle_get(j) ==
  /\ InTurn(j, "storage_get")
  /\ \/ Reply(j, Ok) /\ NoFault
     \/ Reply(j, Failed) /\ Fault
  /\ UNCHANGED storage

handle_set(j) ==
  /\ InTurn(j, "storage_set")
  /\ \/ storage' = [storage EXCEPT ![j.arg.key] = j.arg.value] /\ Reply(j, Ok) /\ NoFault
     \/ UNCHANGED storage /\ Reply(j, Failed) /\ Fault

handle_delete(j) ==
  /\ InTurn(j, "storage_delete")
  /\ \/ storage' = [storage EXCEPT ![j.arg.key] = {}] /\ Reply(j, Ok) /\ NoFault
     \/ UNCHANGED storage /\ Reply(j, Failed) /\ Fault

handle_list(j) ==
  /\ InTurn(j, "storage_list")
  /\ Reply(j, Ok)
  /\ UNCHANGED <<storage, faults>>

NextAccounts ==
  \E j \in jobs :
    \/ CheckUsername(j) \/ CreateUserScope(j) \/ InsertUser(j)
    \/ handle_user_get(j) \/ handle_user_list(j) \/ handle_user_update(j) \/ handle_user_delete(j)
    \/ handle_apikey_create(j) \/ handle_apikey_list(j) \/ handle_apikey_revoke(j)
    \/ FindKey(j) \/ NoteKeyUsed(j)
    \/ handle_get(j) \/ handle_set(j) \/ handle_delete(j) \/ handle_list(j)
=============================================================================
