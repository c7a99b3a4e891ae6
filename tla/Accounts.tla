------------------------------ MODULE Accounts ------------------------------
(***************************************************************************)
(* Accounts and what belongs to them: sign up (auth/server/src/api/login/  *)
(* local.rs, api/external.rs), linking external logins (api/external.rs),  *)
(* usernames, passwords and links changed by their user (api/manage/       *)
(* local.rs, external.rs), api keys and signing keys (api/manage/          *)
(* api_key.rs). Each request asks the app's storage several times, and      *)
(* other requests run in between.                                          *)
(*                                                                         *)
(* The storage (AuthImpl) is external. As the code asks of it, it keeps    *)
(* usernames (check_username_available) and public keys                    *)
(* (AuthImpl::create_signing_key) unique; nothing asks that of external    *)
(* logins.                                                                 *)
(***************************************************************************)
EXTENDS Integers, Sequences, FiniteSets, SequencesExt

CONSTANTS
  Batches,          \* requests at the same time: sets of [op, ...], each handled once
  InitialUsers,     \* what the storage may hold at first
  LockedNames,      \* locked_usernames (a name is a sequence: a suffix extends it)
  ClosedToNew,      \* registration_disabled
  MaxUsers          \* bound: users ever

\* Users are stored as StoreUser does; requests that act on a user name it.
ASSUME AccountsAssumption ==
  /\ \A us \in InitialUsers :
       /\ us \in Seq(Range(us))
       /\ \A u \in DOMAIN us : DOMAIN us[u] = {"name", "logins", "password", "enabled"}
  /\ \A batch \in Batches : \A d \in batch :
       /\ d.op \in {"sign up", "external login", "link", "rename", "password", "unlink",
                    "unlink local", "create key", "delete key"}
       /\ d.op \notin {"sign up", "external login"} => "user" \in DOMAIN d

VARIABLES
  users,       \* user id -> [name, logins, password, enabled]
  keyOwner,    \* public key -> the user it is stored for, 0 for none
  duty,        \* [step, noUsers, user, name, answer] of each request, and of
               \* its beginning: no user existed, its user was enabled since
  made         \* what requests did: [effect, by, user]

accountVars == <<users, keyOwner, duty, made>>

PublicKeys == {"k1", "k2"}
UserIds == 1..Len(users)
NobodyYet == 0

NewDuties(batch) ==
  [d \in batch |-> [step |-> "new", noneAtFirst |-> FALSE, noUsers |-> FALSE,
                    enabledSince |-> FALSE, user |-> NobodyYet, name |-> <<>>, answer |-> ""]]

AccountsInit ==
  /\ users \in InitialUsers
  /\ keyOwner = [k \in PublicKeys |-> NobodyYet]
  /\ duty \in {NewDuties(batch) : batch \in Batches}
  /\ made = {}

----------------------------------------------------------------------------
(* The storage *)

HasName(name) == {u \in UserIds : users[u].name = name}
HasLogin(login) == {u \in UserIds : login \in users[u].logins}

\* An insert fails if the name is taken.
StoreUser(name, logins, password) ==
  IF HasName(name) # {} \/ Len(users) >= MaxUsers THEN users
  ELSE Append(users, [name |-> name, logins |-> logins, password |-> password,
                      enabled |-> TRUE])

----------------------------------------------------------------------------
(* Steps of a request d *)

Moves(d, step) == duty' = [duty EXCEPT ![d].step = step]
Answers(d, answer) == duty' = [duty EXCEPT ![d].step = "end", ![d].answer = answer]

FirstStep(op) ==
  CASE op = "sign up" -> "register"
    [] op = "external login" -> "find"
    [] op = "link" -> "may link"
    [] op = "rename" -> "name"
    [] op \in {"password", "unlink", "unlink local"} -> "write"
    [] op = "create key" -> "unused"
    [] op = "delete key" -> "owner"

\* A manage request acts on the user the middleware attached; changes of
\* credentials are refused for a locked username.
Begin(d) ==
  /\ duty[d].step = "new"
  /\ "user" \in DOMAIN d => d.user \in UserIds
  /\ IF /\ d.op \in {"rename", "password", "unlink", "unlink local"}
        /\ users[d.user].name \in LockedNames
     THEN Answers(d, "locked")
     ELSE duty' = [duty EXCEPT ![d] =
            [@ EXCEPT !.step = FirstStep(d.op), !.noneAtFirst = (users = <<>>),
                      !.enabledSince = IF d.op = "link" THEN users[d.user].enabled ELSE FALSE,
                      !.name = IF "name" \in DOMAIN d THEN d.name ELSE <<>>]]
  /\ UNCHANGED <<users, keyOwner, made>>

\* Mutant: closed registration is only refused where nobody was found first.
RefusesNobody(noUsers) == FALSE

RegistrationRefused(noUsers) == ClosedToNew /\ ~noUsers

\* no_users_exist, and what it allows (sign_up_local_user, login_callback).
Register(d) ==
  /\ duty[d].step = "register"
  /\ LET noUsers == users = <<>>
     IN IF RegistrationRefused(noUsers) THEN Answers(d, "closed")
        ELSE duty' = [duty EXCEPT ![d].step = "name", ![d].noUsers = noUsers]
  /\ UNCHANGED <<users, keyOwner, made>>

\* check_username_available (sign up, rename), unique_username (external). The
\* provider's name for a user is used as it is, or made to pass the rule
\* (signup_username, normalize_username): what counts here is whether it is
\* taken, and that a random suffix is not.
PickName(d) ==
  /\ duty[d].step = "name"
  /\ LET taken == HasName(d.name) \ (IF d.op = "rename" THEN {d.user} ELSE {}) # {}
     IN CASE taken /\ d.op # "external login" -> Answers(d, "conflict")
          [] taken /\ d.op = "external login" ->
               duty' = [duty EXCEPT ![d].step = "insert", ![d].name = Append(d.name, d)]
          [] ~taken -> Moves(d, IF d.op = "rename" THEN "write" ELSE "insert")
  /\ UNCHANGED <<users, keyOwner, made>>

\* sign_up_local_user after the password was hashed, sign_up_external_user
InsertUser(d) ==
  /\ duty[d].step = "insert"
  /\ LET external == d.op = "external login"
     IN users' = StoreUser(duty[d].name, IF external THEN {d.login} ELSE {}, ~external)
  /\ IF users' = users THEN Answers(d, "storage error") /\ UNCHANGED made
     ELSE /\ duty' = [duty EXCEPT ![d].user = Len(users'),
                                  ![d].step = IF d.op = "sign up" THEN "end" ELSE "sync",
                                  ![d].answer = IF d.op = "sign up" THEN "ok" ELSE ""]
          /\ made' = made \cup {[effect |-> "account", by |-> d, user |-> Len(users')]}
  /\ UNCHANGED keyOwner

\* find_user_with_external_login (login_callback)
FindLogin(d) ==
  /\ duty[d].step = "find" /\ d.op = "external login"
  /\ IF HasLogin(d.login) = {} THEN Moves(d, "register")
     ELSE \E u \in HasLogin(d.login) :
            duty' = [duty EXCEPT ![d].step = "sync", ![d].user = u]
  /\ UNCHANGED <<users, keyOwner, made>>

\* Mutant: checked when the link was started only.
CanLinkBefore(u) == TRUE

\* check_user_can_link
CanLink(u) == users[u].enabled /\ users[u].name \notin LockedNames

\* link_callback: checked again first.
MayLink(d) ==
  /\ duty[d].step = "may link"
  /\ IF CanLink(d.user) THEN Moves(d, "find") ELSE Answers(d, "refused")
  /\ UNCHANGED <<users, keyOwner, made>>

FindLinked(d) ==
  /\ duty[d].step = "find" /\ d.op = "link"
  /\ IF HasLogin(d.login) = {} THEN Moves(d, "link")
     ELSE \E u \in HasLogin(d.login) :
            IF u = d.user THEN duty' = [duty EXCEPT ![d].step = "sync", ![d].user = u]
            ELSE Answers(d, "conflict")
  /\ UNCHANGED <<users, keyOwner, made>>

LinkLogin(d) ==
  /\ duty[d].step = "link"
  /\ users' = [users EXCEPT ![d.user].logins = @ \cup {d.login}]
  /\ duty' = [duty EXCEPT ![d].step = "sync", ![d].user = d.user]
  /\ made' = made \cup {[effect |-> "link", by |-> d, user |-> d.user]}
  /\ UNCHANGED keyOwner

\* sync_external_user; a failure ends the request, what was stored stays.
SyncUser(d) ==
  /\ duty[d].step = "sync"
  /\ Answers(d, "ok") \/ Answers(d, "sync failed")
  /\ UNCHANGED <<users, keyOwner, made>>

\* update_user_username (unique), update_user_password, unlink_external_login,
\* unlink_local_login
WriteOwn(d) ==
  /\ duty[d].step = "write"
  /\ users' = CASE d.op = "rename" ->
                     IF HasName(d.name) \ {d.user} # {} THEN users
                     ELSE [users EXCEPT ![d.user].name = d.name]
                [] d.op = "password" -> [users EXCEPT ![d.user].password = TRUE]
                [] d.op = "unlink" -> [users EXCEPT ![d.user].logins = {}]
                [] d.op = "unlink local" -> [users EXCEPT ![d.user].password = FALSE]
  /\ Answers(d, IF d.op = "rename" /\ HasName(d.name) \ {d.user} # {}
                THEN "storage error" ELSE "ok")
  /\ UNCHANGED <<keyOwner, made>>

\* check_public_key_unused
KeyUnused(d) ==
  /\ duty[d].step = "unused"
  /\ IF keyOwner[d.key] # NobodyYet THEN Answers(d, "conflict") ELSE Moves(d, "store key")
  /\ UNCHANGED <<users, keyOwner, made>>

\* create_signing_key
StoreKey(d) ==
  /\ duty[d].step = "store key"
  /\ IF keyOwner[d.key] # NobodyYet THEN Answers(d, "storage error") /\ UNCHANGED keyOwner
     ELSE Answers(d, "ok") /\ keyOwner' = [keyOwner EXCEPT ![d.key] = d.user]
  /\ UNCHANGED <<users, made>>

\* delete_signing_key, delete_api_key: the owner is checked, then the key deleted.
KeyOwnerIs(d) ==
  /\ duty[d].step = "owner"
  /\ IF keyOwner[d.key] # d.user THEN Answers(d, "forbidden") ELSE Moves(d, "delete")
  /\ UNCHANGED <<users, keyOwner, made>>

DeleteKey(d) ==
  /\ duty[d].step = "delete"
  /\ keyOwner' = [keyOwner EXCEPT ![d.key] = NobodyYet]
  /\ Answers(d, "ok")
  /\ UNCHANGED <<users, made>>

\* The app enables and disables users.
SetEnabled(u, enabled) ==
  /\ users[u].enabled # enabled
  /\ users' = [users EXCEPT ![u].enabled = enabled]
  /\ duty' = [d \in DOMAIN duty |-> IF enabled /\ d.op = "link" /\ d.user = u /\ duty[d].step # "new"
                             THEN [duty[d] EXCEPT !.enabledSince = TRUE] ELSE duty[d]]
  /\ UNCHANGED <<keyOwner, made>>

AccountsNext ==
  \/ \E d \in DOMAIN duty :
       \/ Begin(d) \/ Register(d) \/ PickName(d) \/ InsertUser(d) \/ FindLogin(d)
       \/ MayLink(d) \/ FindLinked(d) \/ LinkLogin(d) \/ SyncUser(d) \/ WriteOwn(d)
       \/ KeyUnused(d) \/ StoreKey(d) \/ KeyOwnerIs(d) \/ DeleteKey(d)
  \/ \E u \in UserIds, enabled \in BOOLEAN : SetEnabled(u, enabled)

AccountsSpec == AccountsInit /\ [][AccountsNext]_accountVars

----------------------------------------------------------------------------
(* Properties *)

\* A request gets an account, while registration is closed or as the first user
\* (no_users_exist), only if it began when there was no user: not after another
\* request had been answered. And a login is only linked to a user who was
\* enabled at some time since the callback came, not to one disabled while the
\* browser was at the provider.
ChecksBindEffects ==
  \A e \in made :
    /\ e.effect = "account" /\ (ClosedToNew \/ duty[e.by].noUsers) => duty[e.by].noneAtFirst
    /\ e.effect = "link" => duty[e.by].enabledSince

\* "Ensure there are no other existing users with this login linked."
\* (api/external.rs, link_callback): an external login is one user's.
OneUserPerExternalLogin ==
  \A u, v \in UserIds : users[u].logins \cap users[v].logins # {} => u = v
=============================================================================
