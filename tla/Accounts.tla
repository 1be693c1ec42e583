-------------------------------- MODULE Accounts --------------------------------
(***************************************************************************)
(* api/auth.py and core/auth.py: accounts, the tokens given out for them   *)
(* and who may act with which.  A token carries the role its account had   *)
(* when it was signed; most endpoints (get_auth_user) look at the token    *)
(* alone.  Passwords and signatures hold: only what was given out is       *)
(* accepted.  Time passes in ticks, and an expired token is forgotten.     *)
(***************************************************************************)
EXTENDS Integers

CONSTANTS
    Email,        \* the addresses people register with
    Attempt,      \* registrations that may be under way at once
    AccessLife,   \* ACCESS_TOKEN_EXPIRE_MINUTES
    RefreshLife,  \* REFRESH_TOKEN_EXPIRE_DAYS
    MaxClock,     \* bound on time
    MaxChanges,   \* bound on the changes made to accounts by hand
    None

ASSUME LivesAssumption ==
    /\ AccessLife \in Nat \ {0} /\ RefreshLife \in Nat \ {0}
    /\ MaxClock \in Nat /\ MaxChanges \in Nat

ASSUME NoEmailAssumption == None \notin Email

Role    == {"admin", "analyst", "viewer"}
Account == [role : Role, active : BOOLEAN]

ASSUME NoAccountAssumption == None \notin Account

VARIABLES
    clock,
    account,      \* [Email -> Account or None], the users table
    attempt,      \* [Attempt -> the address found free, or None]
    tokens,       \* those that have not expired
    changes,      \* of accounts, so far
    adminUntil    \* history: the last time an account was an active administrator's

accountVars == <<clock, account, attempt, tokens, changes, adminUntil>>

Token == [user : Email, role : Role, type : {"access", "refresh"}, expires : Nat]

Pair(e, role) ==
    {[user |-> e, role |-> role, type |-> "access", expires |-> clock + AccessLife],
     [user |-> e, role |-> role, type |-> "refresh", expires |-> clock + RefreshLife]}

IsActive(e) == account[e] # None /\ account[e].active
IsAdmin(e)  == IsActive(e) /\ account[e].role = "admin"

AccountsInit ==
    /\ clock = 0
    /\ account = [e \in Email |-> None]
    /\ attempt = [a \in Attempt |-> None]
    /\ tokens = {}
    /\ changes = 0
    /\ adminUntil = [e \in Email |-> 0]

-----------------------------------------------------------------------------
(* The address is looked for, then the row is inserted: in between other
   registrations run.                                                       *)
RegisterCheck(a, e) ==
    /\ attempt[a] = None
    /\ account[e] = None
    /\ attempt' = [attempt EXCEPT ![a] = e]
    /\ UNCHANGED <<clock, account, tokens, changes, adminUntil>>

RegisterUnconstrained(a) ==             \* mutant: the column is not unique
    /\ attempt[a] # None
    /\ attempt' = [attempt EXCEPT ![a] = None]
    /\ account' = [account EXCEPT ![attempt[a]] = [role |-> "analyst", active |-> TRUE]]
    /\ UNCHANGED <<clock, tokens, changes, adminUntil>>

(* The column is unique: of two that found it free the later one fails.     *)
RegisterCommit(a) ==
    /\ attempt[a] # None
    /\ attempt' = [attempt EXCEPT ![a] = None]
    /\ \/ /\ account[attempt[a]] = None
          /\ account' = [account EXCEPT ![attempt[a]] = [role |-> "analyst", active |-> TRUE]]
       \/ account[attempt[a]] # None /\ UNCHANGED account
    /\ UNCHANGED <<clock, tokens, changes, adminUntil>>

Login(e) ==
    /\ IsActive(e)
    /\ tokens' = tokens \cup Pair(e, account[e].role)
    /\ UNCHANGED <<clock, account, attempt, changes, adminUntil>>

RefreshFromToken(t) ==                  \* mutant: the role is taken over from the token
    /\ t \in tokens /\ t.type = "refresh" /\ clock < t.expires
    /\ IsActive(t.user)
    /\ tokens' = tokens \cup Pair(t.user, t.role)
    /\ UNCHANGED <<clock, account, attempt, changes, adminUntil>>

Refresh(t) ==
    /\ t \in tokens /\ t.type = "refresh" /\ clock < t.expires
    /\ IsActive(t.user)
    /\ tokens' = tokens \cup Pair(t.user, account[t.user].role)
    /\ UNCHANGED <<clock, account, attempt, changes, adminUntil>>

(* No endpoint makes an administrator or closes an account: it is done in
   the users table.                                                         *)
Administer(e, to) ==
    /\ account[e] # None /\ account[e] # to
    /\ changes < MaxChanges
    /\ changes' = changes + 1
    /\ account' = [account EXCEPT ![e] = to]
    /\ adminUntil' = [adminUntil EXCEPT ![e] = IF IsAdmin(e) THEN clock ELSE @]
    /\ UNCHANGED <<clock, attempt, tokens>>

Tick ==
    /\ clock < MaxClock
    /\ clock' = clock + 1
    /\ tokens' = {t \in tokens : clock + 1 < t.expires}
    /\ UNCHANGED <<account, attempt, changes, adminUntil>>

AccountsNext ==
    \/ Tick
    \/ \E a \in Attempt : RegisterCommit(a) \/ \E e \in Email : RegisterCheck(a, e)
    \/ \E e \in Email : Login(e) \/ \E to \in Account : Administer(e, to)
    \/ \E t \in tokens : Refresh(t)

(* get_auth_user and _require_admin                                         *)
MayAdminister(t) ==
    t \in tokens /\ clock < t.expires /\ t.type = "access" /\ t.role = "admin"

-----------------------------------------------------------------------------
AccountsTypeOK ==
    /\ clock \in 0..MaxClock
    /\ account \in [Email -> Account \cup {None}]
    /\ attempt \in [Attempt -> Email \cup {None}]
    /\ tokens \subseteq Token
    /\ changes \in 0..MaxChanges
    /\ adminUntil \in [Email -> 0..MaxClock]

(* Who may administer is an active administrator, or was one less than the
   life of an access token ago: refreshing does not carry lost rights on
   (core/auth.py, the lightweight check of the token alone).                *)
RightsEnd ==
    \A e \in Email :
        (\E t \in tokens : t.user = e /\ MayAdminister(t)) =>
            IsAdmin(e) \/ clock < adminUntil[e] + AccessLife

(* A registration that ends changes no account there is, not even that of
   the address it found free (api/auth.py, check and insert).               *)
RegistrationResetsNothing ==
    [][(\E a \in Attempt : attempt[a] # None /\ attempt'[a] = None) =>
           \A e \in Email : account[e] # None => account'[e] = account[e]]_accountVars
=============================================================================
