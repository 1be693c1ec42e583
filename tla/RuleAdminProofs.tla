---------------------------- MODULE RuleAdminProofs ----------------------------
(***************************************************************************)
(* Theorems about RuleAdmin and the accounts it runs beside, for any       *)
(* number of people, workers, files and rules.                             *)
(***************************************************************************)
EXTENDS RuleAdmin, TLAPS

-----------------------------------------------------------------------------
(* The accounts *)

LEMMA PairType ==
  ASSUME AccountsTypeOK, NEW e \in Email, NEW role \in Role
  PROVE  Pair(e, role) \subseteq Token
BY LivesAssumption DEF Pair, Token, AccountsTypeOK

\* An address whose account is active, and its role.
LEMMA ActiveAccount ==
  ASSUME AccountsTypeOK, NEW e \in Email, IsActive(e)
  PROVE  account[e] \in Account /\ account[e].role \in Role
BY DEF AccountsTypeOK, IsActive, Account

LEMMA AccountsInitType == AccountsInit => AccountsTypeOK
BY LivesAssumption DEF AccountsInit, AccountsTypeOK

LEMMA AccountsNextType ==
  ASSUME AccountsTypeOK, AccountsNext
  PROVE  AccountsTypeOK'
<1>1. CASE Tick
  BY <1>1, LivesAssumption DEF Tick, AccountsTypeOK
<1>2. ASSUME NEW a \in Attempt, RegisterCommit(a) PROVE AccountsTypeOK'
  <2>1. attempt[a] \in Email
    BY <1>2 DEF RegisterCommit, AccountsTypeOK
  <2>2. [role |-> "analyst", active |-> TRUE] \in Account
    BY DEF Account, Role
  <2> QED BY <1>2, <2>1, <2>2 DEF RegisterCommit, AccountsTypeOK
<1>3. ASSUME NEW a \in Attempt, NEW e \in Email, RegisterCheck(a, e) PROVE AccountsTypeOK'
  BY <1>3 DEF RegisterCheck, AccountsTypeOK
<1>4. ASSUME NEW e \in Email, Login(e) PROVE AccountsTypeOK'
  BY <1>4, ActiveAccount, PairType DEF Login, AccountsTypeOK
<1>5. ASSUME NEW e \in Email, NEW to \in Account, Administer(e, to) PROVE AccountsTypeOK'
  BY <1>5, LivesAssumption DEF Administer, AccountsTypeOK
<1>6. ASSUME NEW t \in tokens, Refresh(t) PROVE AccountsTypeOK'
  <2>1. t.user \in Email
    BY DEF AccountsTypeOK, Token
  <2> QED BY <1>6, <2>1, ActiveAccount, PairType DEF Refresh, AccountsTypeOK
<1> QED BY <1>1, <1>2, <1>3, <1>4, <1>5, <1>6 DEF AccountsNext

LEMMA AccountsFrame ==
  ASSUME UNCHANGED accountVars
  PROVE  (AccountsTypeOK => AccountsTypeOK')
BY DEF accountVars, AccountsTypeOK

-----------------------------------------------------------------------------
(* Rights end *)

\* RightsEnd is not inductive: a token of an administrator outlives the rights by what is
\* left of it, so it matters when it was signed.
Bounded(t) ==
  t.type = "access" =>
    /\ t.expires <= clock + AccessLife
    /\ t.role = "admin" => IsAdmin(t.user) \/ t.expires <= adminUntil[t.user] + AccessLife

RightsInv == AccountsTypeOK /\ \A t \in tokens : Bounded(t)

LEMMA RightsImply == RightsInv => RightsEnd
<1> SUFFICES ASSUME RightsInv, NEW e \in Email, NEW t \in tokens, t.user = e, MayAdminister(t)
             PROVE  IsAdmin(e) \/ clock < adminUntil[e] + AccessLife
  BY DEF RightsEnd
<1>1. t.expires \in Nat /\ clock \in Nat /\ adminUntil[e] \in Nat
  BY DEF RightsInv, AccountsTypeOK, Token
<1> QED BY <1>1, LivesAssumption DEF RightsInv, Bounded, MayAdminister

\* What is signed for an active account has the account's role.
LEMMA SignedBounded ==
  ASSUME AccountsTypeOK, NEW e \in Email, IsActive(e),
         UNCHANGED <<clock, account, adminUntil>>
  PROVE  \A t \in Pair(e, account[e].role) : Bounded(t)'
BY LivesAssumption DEF Pair, Bounded, IsAdmin, IsActive, AccountsTypeOK

LEMMA RightsNext ==
  ASSUME RightsInv, AccountsNext
  PROVE  RightsInv'
<1> USE DEF RightsInv
<1>1. AccountsTypeOK'
  BY AccountsNextType
<1>2. \A t \in tokens : t \in Token /\ t.user \in Email /\ t.expires \in Nat
  BY DEF AccountsTypeOK, Token
<1>3. ASSUME UNCHANGED <<clock, account, adminUntil>>
      PROVE  \A t \in tokens : Bounded(t)'
  BY <1>3 DEF Bounded, IsAdmin, IsActive
<1>4. CASE Tick
  <2> SUFFICES ASSUME NEW t \in tokens PROVE Bounded(t)'
    BY <1>1, <1>4 DEF Tick
  <2> QED BY <1>2, <1>4, LivesAssumption DEF Tick, Bounded, IsAdmin, IsActive, AccountsTypeOK
<1>5. ASSUME NEW a \in Attempt, RegisterCommit(a) PROVE RightsInv'
  <2> SUFFICES ASSUME NEW t \in tokens PROVE Bounded(t)'
    BY <1>1, <1>5 DEF RegisterCommit
  <2>1. IsAdmin(t.user) => IsAdmin(t.user)'
    BY <1>2, <1>5 DEF RegisterCommit, IsAdmin, IsActive, AccountsTypeOK
  <2> QED BY <1>5, <2>1 DEF RegisterCommit, Bounded
<1>6. ASSUME NEW a \in Attempt, NEW e \in Email, RegisterCheck(a, e) PROVE RightsInv'
  BY <1>1, <1>3, <1>6 DEF RegisterCheck
<1>7. ASSUME NEW e \in Email, Login(e) PROVE RightsInv'
  BY <1>1, <1>3, <1>7, SignedBounded DEF Login
<1>8. ASSUME NEW s \in tokens, Refresh(s) PROVE RightsInv'
  BY <1>1, <1>2, <1>3, <1>8, SignedBounded DEF Refresh
<1>9. ASSUME NEW e \in Email, NEW to \in Account, Administer(e, to) PROVE RightsInv'
  <2> SUFFICES ASSUME NEW t \in tokens PROVE Bounded(t)'
    BY <1>1, <1>9 DEF Administer
  <2>1. CASE t.user # e
    <3>1. account'[t.user] = account[t.user] /\ adminUntil'[t.user] = adminUntil[t.user]
      BY <1>2, <1>9, <2>1 DEF Administer, AccountsTypeOK
    <3> QED BY <1>9, <3>1 DEF Administer, Bounded, IsAdmin, IsActive
  <2>2. CASE t.user = e /\ IsAdmin(e)
    <3>1. adminUntil'[e] = clock
      BY <1>9, <2>2 DEF Administer, AccountsTypeOK
    <3> QED BY <1>9, <2>2, <3>1 DEF Administer, Bounded
  <2>3. CASE t.user = e /\ ~IsAdmin(e)
    <3>1. adminUntil'[e] = adminUntil[e]
      BY <1>9, <2>3 DEF Administer, AccountsTypeOK
    <3> QED BY <1>9, <2>3, <3>1 DEF Administer, Bounded
  <2> QED BY <2>1, <2>2, <2>3
<1> QED BY <1>4, <1>5, <1>6, <1>7, <1>8, <1>9 DEF AccountsNext

LEMMA RightsStep == RightsInv /\ [Next]_vars => RightsInv'
<1> SUFFICES ASSUME RightsInv, [Next]_vars PROVE RightsInv'
  OBVIOUS
<1>1. ASSUME UNCHANGED accountVars PROVE RightsInv'
  <2>1. UNCHANGED <<clock, account, tokens, adminUntil>>
    BY <1>1 DEF accountVars
  <2>2. \A t \in tokens : Bounded(t)'
    BY <2>1 DEF RightsInv, Bounded, IsAdmin, IsActive
  <2> QED BY <1>1, <2>1, <2>2, AccountsFrame DEF RightsInv
<1>2. CASE AccountsNext
  BY <1>2, RightsNext
<1> QED BY <1>1, <1>2 DEF Next, vars

\* Whoever may administer is an active administrator or was one less than the life of an
\* access token ago: refreshing a session does not carry lost rights on.
THEOREM RightsEndWithTheToken == Spec => []RightsEnd
<1>1. Init => RightsInv
  BY AccountsInitType DEF Init, AccountsInit, RightsInv
<1> QED BY <1>1, RightsStep, RightsImply, PTL DEF Spec

\* Registering changes no account that exists, not even one made for the same address
\* after it was found free.
THEOREM RegistrationKeepsAccounts == Spec => RegistrationResetsNothing
<1>1. AccountsTypeOK /\ [Next]_vars => AccountsTypeOK'
  <2> SUFFICES ASSUME AccountsTypeOK, [Next]_vars PROVE AccountsTypeOK'
    OBVIOUS
  <2> QED BY AccountsNextType, AccountsFrame DEF Next, vars
<1>2. AccountsTypeOK /\ [Next]_vars =>
        [(\E a \in Attempt : attempt[a] # None /\ attempt'[a] = None) =>
           \A e \in Email : account[e] # None => account'[e] = account[e]]_accountVars
  <2> SUFFICES ASSUME AccountsTypeOK, Next, NEW a \in Attempt,
                      attempt[a] # None, attempt'[a] = None,
                      NEW e \in Email, account[e] # None
               PROVE  account'[e] = account[e]
    BY DEF vars, accountVars
  <2>1. CASE RulesNext /\ UNCHANGED accountVars
    BY <2>1 DEF accountVars
  <2>2. ASSUME NEW b \in Attempt, RegisterCommit(b) PROVE account'[e] = account[e]
    BY <2>2 DEF RegisterCommit, AccountsTypeOK
  <2>3. ASSUME NEW b \in Attempt, NEW d \in Email, RegisterCheck(b, d) PROVE FALSE
    BY <2>3, NoEmailAssumption DEF RegisterCheck, AccountsTypeOK
  <2>4. CASE Tick \/ (\E d \in Email : Login(d)) \/ \E t \in tokens : Refresh(t)
    BY <2>4 DEF Tick, Login, Refresh
  <2>5. ASSUME NEW d \in Email, NEW to \in Account, Administer(d, to) PROVE FALSE
    BY <2>5 DEF Administer
  <2> QED BY <2>1, <2>2, <2>3, <2>4, <2>5 DEF Next, AccountsNext
<1>3. Init => AccountsTypeOK
  BY AccountsInitType DEF Init
<1> QED BY <1>1, <1>2, <1>3, PTL DEF Spec, RegistrationResetsNothing

-----------------------------------------------------------------------------
(* The rules *)

RulesTypeOK ==
  /\ files \in [File -> Contents]
  /\ task \in [Worker -> Task \cup {None}]
  /\ logged \in [File -> [1..RulesIn -> Rule]]
  /\ engine \in [Worker -> [File -> Contents]]
  /\ clean \in [File -> BOOLEAN] /\ excused \in [File -> BOOLEAN]
  /\ updates \in 0..MaxUpdates /\ faults \in 0..MaxFaults

\* Files: those of the release, those cut short, and those with a rule changed.
LEMMA TornContents == Torn \in Contents /\ DOMAIN Torn = {}
<1>1. Torn \in [1..0 -> Rule]
  BY DEF Torn
<1>2. 0 \in 0..RulesIn
  BY FilesAssumption
<1> QED BY <1>1, <1>2 DEF Contents, Torn

LEMMA FullContents == \A data \in [1..RulesIn -> Rule] : data \in Contents
<1>1. RulesIn \in 0..RulesIn
  BY FilesAssumption
<1> QED BY <1>1 DEF Contents

LEMMA CutContents ==
  ASSUME NEW data \in Contents, NEW left \in Cuts(data)
  PROVE  left \in Contents
<1>1. PICK k \in 0..RulesIn : data \in [1..k -> Rule]
  BY DEF Contents
<1>2. PICK n \in 0..RulesIn : 1..n \subseteq DOMAIN data /\ left = [i \in 1..n |-> data[i]]
  BY DEF Cuts
<1>3. left \in [1..n -> Rule]
  BY <1>1, <1>2
<1> QED BY <1>3 DEF Contents

LEMMA ChangedRule ==
  ASSUME NEW rule \in Rule, NEW change \in Changes
  PROVE  Changed(rule, change) \in Rule
<1>1. PICK xs \in SUBSET Field : change \in [xs -> Value]
  BY DEF Changes
<1>2. \A x \in DOMAIN change : change[x] \in Value
  BY <1>1
<1> QED BY <1>2 DEF Changed, Rule

LEMMA ChangedContents ==
  ASSUME NEW data \in Contents, NEW i \in DOMAIN data, NEW change \in Changes
  PROVE  /\ [data EXCEPT ![i] = Changed(@, change)] \in Contents
         /\ DOMAIN [data EXCEPT ![i] = Changed(@, change)] = DOMAIN data
<1>1. PICK n \in 0..RulesIn : data \in [1..n -> Rule]
  BY DEF Contents
<1>2. Changed(data[i], change) \in Rule
  BY <1>1, ChangedRule
<1>3. [data EXCEPT ![i] = Changed(@, change)] \in [1..n -> Rule]
  BY <1>1, <1>2
<1> QED BY <1>1, <1>3 DEF Contents

LEMMA LoadType ==
  ASSUME NEW fs \in [File -> Contents]
  PROVE  Load(fs) \in [File -> Contents]
BY TornContents DEF Load

LEMMA WholeType == Whole \in [1..RulesIn -> Rule]
BY ValuesAssumption DEF Whole, Rule

LEMMA RulesInitType == RulesInit => RulesTypeOK
<1> SUFFICES ASSUME RulesInit PROVE RulesTypeOK
  OBVIOUS
<1>1. files \in [File -> Contents] /\ logged \in [File -> [1..RulesIn -> Rule]]
  BY WholeType, FullContents DEF RulesInit
<1>2. engine \in [Worker -> [File -> Contents]]
  BY <1>1, LoadType DEF RulesInit
<1> QED BY <1>1, <1>2, BoundsAssumption DEF RulesInit, RulesTypeOK

\* What a worker's update is, while there is one.
LEMMA TaskOf ==
  ASSUME RulesTypeOK, NEW w \in Worker, task[w] # None
  PROVE  /\ task[w] \in Task /\ task[w].file \in File /\ task[w].rule \in 1..RulesIn
         /\ task[w].change \in Changes /\ task[w].data \in Contents
BY DEF RulesTypeOK, Task

LEMMA AbandonedType ==
  ASSUME RulesTypeOK, NEW w \in Worker, Abandoned(w)
  PROVE  /\ files' \in [File -> Contents] /\ clean' \in [File -> BOOLEAN]
         /\ task' = [task EXCEPT ![w] = None] /\ task' \in [Worker -> Task \cup {None}]
<1>1. CASE task[w] = None
  BY <1>1 DEF Abandoned, RulesTypeOK
<1>2. CASE task[w] # None /\ task[w].step = "opened"
  <2>1. PICK left \in Cuts(task[w].data) : files' = [files EXCEPT ![task[w].file] = left]
    BY <1>2 DEF Abandoned
  <2>2. left \in Contents
    BY <1>2, TaskOf, CutContents
  <2> QED BY <1>2, <2>1, <2>2 DEF Abandoned, RulesTypeOK
<1>3. CASE task[w] # None /\ task[w].step # "opened"
  BY <1>3 DEF Abandoned, RulesTypeOK
<1> QED BY <1>1, <1>2, <1>3

LEMMA RulesNextType ==
  ASSUME RulesTypeOK, RulesNext
  PROVE  RulesTypeOK'
<1>1. ASSUME NEW w \in Worker, NEW t, NEW f \in File, NEW i \in 1..RulesIn,
             NEW change \in Changes, Begin(w, t, f, i, change)
      PROVE  RulesTypeOK'
  <2> DEFINE new == [step |-> "read", file |-> f, rule |-> i, change |-> change,
                     data |-> [files[f] EXCEPT ![i] = Changed(@, change)]]
  <2>1. i \in DOMAIN files[f] /\ files[f] \in Contents
    BY <1>1 DEF Begin, RulesTypeOK
  <2>2. new \in Task
    BY <2>1, ChangedContents DEF Task
  <2>3. task' = [task EXCEPT ![w] = new]
    BY <1>1 DEF Begin
  <2>4. updates' \in 0..MaxUpdates
    BY <1>1, BoundsAssumption DEF Begin, RulesTypeOK
  <2>5. clean' \in [File -> BOOLEAN] /\ excused' \in [File -> BOOLEAN]
    BY <1>1 DEF Begin, RulesTypeOK
  <2> HIDE DEF new
  <2> QED BY <1>1, <2>2, <2>3, <2>4, <2>5 DEF Begin, RulesTypeOK
<1>2. ASSUME NEW w \in Worker, Open(w) PROVE RulesTypeOK'
  <2>1. [task[w] EXCEPT !.step = "opened"] \in Task
    BY <1>2, TaskOf DEF Open, Task
  <2> QED BY <1>2, <2>1, TornContents DEF Open, RulesTypeOK
<1>3. ASSUME NEW w \in Worker, Write(w) PROVE RulesTypeOK'
  <2>1. [task[w] EXCEPT !.step = "written"] \in Task
    BY <1>3, TaskOf DEF Write, Task
  <2>2. PICK left \in {task[w].data, Torn} : files' = [files EXCEPT ![task[w].file] = left]
    BY <1>3 DEF Write
  <2>3. left \in Contents
    BY <1>3, TaskOf, TornContents DEF Write
  <2> QED BY <1>3, <2>1, <2>2, <2>3 DEF Write, RulesTypeOK
<1>4. ASSUME NEW w \in Worker, Log(w) PROVE RulesTypeOK'
  <2>1. task[w].file \in File /\ task[w].rule \in 1..RulesIn /\ task[w].change \in Changes
    BY <1>4, TaskOf DEF Log
  <2>2. Changed(logged[task[w].file][task[w].rule], task[w].change) \in Rule
    BY <2>1, ChangedRule DEF RulesTypeOK
  <2> QED BY <1>4, <2>1, <2>2 DEF Log, RulesTypeOK
<1>5. ASSUME NEW w \in Worker, Fail(w) PROVE RulesTypeOK'
  BY <1>5, AbandonedType, BoundsAssumption DEF Fail, RulesTypeOK
<1>6. ASSUME NEW w \in Worker, Restart(w) PROVE RulesTypeOK'
  <2>1. files' \in [File -> Contents]
    BY <1>6, AbandonedType DEF Restart
  <2>2. engine' \in [Worker -> [File -> Contents]]
    BY <1>6, <2>1, LoadType DEF Restart, RulesTypeOK
  <2>3. excused' \in [File -> BOOLEAN]
    BY <1>6 DEF Restart, Excuse, RulesTypeOK
  <2> QED BY <1>6, <2>2, <2>3, AbandonedType, BoundsAssumption DEF Restart, RulesTypeOK
<1>7. ASSUME NEW w \in Worker, Reload(w) PROVE RulesTypeOK'
  <2>1. Load(files) \in [File -> Contents] /\ Excuse(w) \in [File -> BOOLEAN]
    BY LoadType DEF Excuse, RulesTypeOK
  <2> QED BY <1>7, <2>1 DEF Reload, RulesTypeOK
<1> QED BY <1>1, <1>2, <1>3, <1>4, <1>5, <1>6, <1>7 DEF RulesNext

LEMMA TypeStep == TypeOK /\ [Next]_vars => TypeOK'
<1>1. TypeOK <=> AccountsTypeOK /\ RulesTypeOK
  BY DEF TypeOK, RulesTypeOK
<1>2. (TypeOK <=> AccountsTypeOK /\ RulesTypeOK)'
  BY DEF TypeOK, RulesTypeOK
<1>3. ASSUME UNCHANGED ruleVars, RulesTypeOK PROVE RulesTypeOK'
  BY <1>3 DEF ruleVars, RulesTypeOK
<1> QED BY <1>1, <1>2, <1>3, AccountsNextType, AccountsFrame, RulesNextType DEF Next, vars

\* The accounts, the rule files, the updates under way and the loaded rules keep their
\* shapes through every interleaving, failed write and restart.
THEOREM TypeCorrect == Spec => []TypeOK
<1>1. Init => TypeOK
  BY AccountsInitType, RulesInitType DEF Init, TypeOK, RulesTypeOK
<1> QED BY <1>1, TypeStep, PTL DEF Spec

-----------------------------------------------------------------------------
(* The log of changes accounts for the rules *)

\* Between updates the file is what the log makes of it; during one it says where it is.
Alone(f) == \A v, w \in Worker : Updates(v, f) /\ Updates(w, f) => v = w

UnderWay(t) ==
  /\ t.data = [logged[t.file] EXCEPT ![t.rule] = Changed(@, t.change)]
  /\ t.step = "read" => files[t.file] = logged[t.file]
  /\ t.step = "written" => files[t.file] = t.data

Accounted(f) ==
  /\ Alone(f)
  /\ \A w \in Worker : Updates(w, f) => UnderWay(task[w])
  /\ (\A w \in Worker : ~Updates(w, f)) => files[f] = logged[f]

LogInv == TypeOK /\ \A f \in File : clean[f] => Accounted(f)

LEMMA LogImplies == LogInv => LogAccountsForRules
BY DEF LogInv, Accounted, LogAccountsForRules

\* A step that leaves a file, its log and its updates alone.
LEMMA ElsewhereAccounted ==
  ASSUME NEW f \in File, Accounted(f), files'[f] = files[f], logged'[f] = logged[f],
         \A w \in Worker : Updates(w, f)' <=> Updates(w, f),
         \A w \in Worker : Updates(w, f) => task'[w] = task[w]
  PROVE  Accounted(f)'
<1>1. Alone(f)'
  BY DEF Accounted, Alone
<1>2. ASSUME NEW w \in Worker, Updates(w, f) PROVE UnderWay(task[w])'
  <2>1. task[w].file = f /\ task'[w] = task[w] /\ UnderWay(task[w])
    BY <1>2 DEF Updates, Accounted
  <2> QED BY <2>1 DEF UnderWay
<1> QED BY <1>1, <1>2 DEF Accounted

\* A worker that ends its update before its time.
LEMMA AbandonedAccounted ==
  ASSUME LogInv, NEW w \in Worker, Abandoned(w), UNCHANGED logged, NEW f \in File, clean'[f]
  PROVE  Accounted(f)' /\ clean[f] /\ files'[f] = files[f]
         /\ (Updates(w, f) => task[w].step = "read")
<1> USE DEF LogInv, TypeOK
<1>1. /\ task'[w] = None
      /\ \A v \in Worker : v # w => task'[v] = task[v]
  BY DEF Abandoned
<1>2. \A v \in Worker : v # w => (Updates(v, f)' <=> Updates(v, f))
  BY <1>1 DEF Updates
<1>3. ~Updates(w, f)'
  BY <1>1 DEF Updates
<1>4. CASE ~Updates(w, f)
  <2>1. clean[f] /\ files'[f] = files[f] /\ logged'[f] = logged[f]
    BY <1>4, TaskOf DEF Abandoned, Updates, RulesTypeOK
  <2> QED BY <1>1, <1>2, <1>3, <1>4, <2>1, ElsewhereAccounted
<1>5. CASE Updates(w, f)
  <2>1. task[w] # None /\ task[w].file = f /\ clean[f] /\ task[w].step = "read"
    BY <1>5 DEF Abandoned, Updates
  <2>2. files' = files
    BY <2>1 DEF Abandoned
  <2>3. Accounted(f) /\ UnderWay(task[w]) /\ files[f] = logged[f]
    BY <1>5, <2>1 DEF Accounted, UnderWay
  <2>4. \A v \in Worker : ~Updates(v, f)'
    BY <1>2, <1>3, <1>5, <2>3 DEF Accounted, Alone
  <2>5. Accounted(f)'
    BY <2>2, <2>3, <2>4 DEF Accounted, Alone
  <2> QED BY <2>1, <2>2, <2>5
<1> QED BY <1>4, <1>5

LEMMA BeginAccounted ==
  ASSUME LogInv, NEW w \in Worker, NEW t, NEW g \in File, NEW i \in 1..RulesIn,
         NEW change \in Changes, Begin(w, t, g, i, change), NEW f \in File, clean'[f]
  PROVE  Accounted(f)' /\ clean[f]
<1> USE DEF LogInv, TypeOK
<1> DEFINE new == [step |-> "read", file |-> g, rule |-> i, change |-> change,
                   data |-> [files[g] EXCEPT ![i] = Changed(@, change)]]
<1>1. /\ task[w] = None /\ task' = [task EXCEPT ![w] = new]
      /\ UNCHANGED <<files, logged>>
  BY DEF Begin
<1>2. /\ task'[w] = new
      /\ \A v \in Worker : v # w => task'[v] = task[v]
  BY <1>1
<1>3. ~Updates(w, f)
  BY <1>1 DEF Updates
<1>4. clean[f] /\ (f = g => \A v \in Worker : ~Updates(v, f))
  BY DEF Begin
<1>5. Accounted(f)
  BY <1>4
<1>6. new.file = g /\ new.step = "read" /\ new.rule = i /\ new.change = change
      /\ new.data = [files[g] EXCEPT ![i] = Changed(@, change)]
  OBVIOUS
<1>9. task'[w] # None
  <2>1. i \in DOMAIN files[g] /\ files[g] \in Contents
    BY DEF Begin, RulesTypeOK
  <2>2. new \in Task
    BY <2>1, ChangedContents DEF Task
  <2> QED BY <1>2, <2>2, NoTaskAssumption
<1> HIDE DEF new
<1>7. CASE f # g
  <2>1. \A v \in Worker : Updates(v, f)' <=> Updates(v, f)
    BY <1>2, <1>3, <1>6, <1>7 DEF Updates
  <2> QED BY <1>1, <1>2, <1>3, <1>4, <1>5, <2>1, ElsewhereAccounted
<1>8. CASE f = g
  <2>1. files[f] = logged[f] /\ \A v \in Worker : v # w => ~Updates(v, f)'
    BY <1>2, <1>4, <1>5, <1>8 DEF Accounted, Updates
  <2>2. /\ task'[w].file = f /\ task'[w].rule = i /\ task'[w].change = change
        /\ task'[w].step = "read" /\ task'[w].data = [logged[f] EXCEPT ![i] = Changed(@, change)]
    BY <1>2, <1>6, <1>8, <2>1
  <2>3. Alone(f)'
    BY <2>1 DEF Alone
  <2>4. ASSUME NEW v \in Worker, Updates(v, f)' PROVE UnderWay(task[v])'
    <3>1. v = w
      BY <2>1, <2>4
    <3> QED BY <1>1, <2>1, <2>2, <3>1 DEF UnderWay
  <2>5. Updates(w, f)'
    BY <1>9, <2>2 DEF Updates
  <2> QED BY <1>4, <2>3, <2>4, <2>5 DEF Accounted
<1> QED BY <1>7, <1>8

\* Opening, writing and logging, each by the only update of its file.
LEMMA OnwardAccounted ==
  ASSUME LogInv, NEW w \in Worker, Open(w) \/ Write(w) \/ Log(w), NEW f \in File, clean[f]
  PROVE  Accounted(f)' /\ (Log(w) => logged'[f] = logged[f] \/ (Updates(w, f) /\ logged'[f] = task[w].data))
<1> USE DEF LogInv, TypeOK
<1>1. task[w] # None /\ \A v \in Worker : v # w => task'[v] = task[v]
  BY DEF Open, Write, Log
<1>2. \A v \in Worker : v # w => (Updates(v, f)' <=> Updates(v, f))
  BY <1>1 DEF Updates
<1>3. /\ task[w].file \in File /\ task[w].rule \in 1..RulesIn
      /\ task[w].change \in Changes /\ task[w].data \in Contents
  BY <1>1, TaskOf DEF RulesTypeOK
<1>4. CASE ~Updates(w, f)
  <2>1. task[w].file # f
    BY <1>1, <1>4 DEF Updates
  <2>2. files'[f] = files[f] /\ logged'[f] = logged[f]
    BY <1>3, <2>1 DEF Open, Write, Log, RulesTypeOK
  <2>3. ~Updates(w, f)'
    <3>1. task[w] \in Task
      BY <1>1
    <3>2. \/ \E step \in {"opened", "written"} : task'[w] = [task[w] EXCEPT !.step = step]
          \/ task'[w] = None
      BY DEF Open, Write, Log
    <3>3. task'[w] = None \/ task'[w].file = task[w].file
      BY <3>1, <3>2 DEF Task
    <3> QED BY <2>1, <3>3 DEF Updates
  <2> QED BY <1>1, <1>2, <1>4, <2>2, <2>3, ElsewhereAccounted
<1>5. CASE Updates(w, f)
  <2>1. task[w].file = f
    BY <1>5 DEF Updates
  <2>2. Accounted(f) /\ UnderWay(task[w]) /\ \A v \in Worker : v # w => ~Updates(v, f)
    BY <1>5 DEF Accounted, Alone
  <2>3. \A v \in Worker : v # w => ~Updates(v, f)'
    BY <1>2, <2>2
  <2>4. Alone(f)'
    BY <2>3 DEF Alone
  <2>5. ASSUME UnderWay(task[w])' PROVE \A v \in Worker : Updates(v, f)' => UnderWay(task[v])'
    BY <2>3, <2>5
  <2>6. CASE Open(w)
    <3>1. task' = [task EXCEPT ![w] = [task[w] EXCEPT !.step = "opened"]] /\ logged' = logged
      BY <2>6 DEF Open
    <3>2. /\ task'[w] = [task[w] EXCEPT !.step = "opened"]
          /\ task[w] \in Task /\ task'[w] \in Task
      BY <1>1, <3>1, TaskOf DEF RulesTypeOK, Task
    <3>3. /\ task'[w].file = f /\ task'[w].rule = task[w].rule /\ task'[w].data = task[w].data
          /\ task'[w].change = task[w].change /\ task'[w].step = "opened"
      BY <2>1, <3>2 DEF Task
    <3>4. Updates(w, f)'
      BY <3>2, <3>3, NoTaskAssumption DEF Updates
    <3>6. UnderWay(task[w])'
      BY <2>1, <2>2, <3>1, <3>3 DEF UnderWay
    <3>7. ~Log(w)
      BY <2>6 DEF Open, Log
    <3> QED BY <2>4, <2>5, <3>4, <3>6, <3>7 DEF Accounted
  <2>7. CASE Write(w)
    <3>1. task' = [task EXCEPT ![w] = [task[w] EXCEPT !.step = "written"]] /\ logged' = logged
      BY <2>7 DEF Write
    <3>2. /\ task'[w] = [task[w] EXCEPT !.step = "written"]
          /\ task[w] \in Task /\ task'[w] \in Task
      BY <1>1, <3>1, TaskOf DEF RulesTypeOK, Task
    <3>3. /\ task'[w].file = f /\ task'[w].rule = task[w].rule /\ task'[w].data = task[w].data
          /\ task'[w].change = task[w].change /\ task'[w].step = "written"
      BY <2>1, <3>2 DEF Task
    <3>4. Updates(w, f)'
      BY <3>2, <3>3, NoTaskAssumption DEF Updates
    <3>5. files'[f] = task[w].data
      BY <2>1, <2>2, <2>7 DEF Write, RulesTypeOK
    <3>6. UnderWay(task[w])'
      BY <2>1, <2>2, <3>1, <3>3, <3>5 DEF UnderWay
    <3>7. ~Log(w)
      BY <2>7 DEF Write, Log
    <3> QED BY <2>4, <2>5, <3>4, <3>6, <3>7 DEF Accounted
  <2>8. CASE Log(w)
    <3>1. task'[w] = None /\ files' = files
      BY <2>8 DEF Log, RulesTypeOK
    <3>2. \A v \in Worker : ~Updates(v, f)'
      BY <2>3, <3>1 DEF Updates
    <3>3. logged'[f] = [logged[f] EXCEPT ![task[w].rule] = Changed(@, task[w].change)]
      BY <1>3, <2>1, <2>8 DEF Log, RulesTypeOK
    <3>4. logged'[f] = task[w].data /\ files[f] = task[w].data
      BY <2>1, <2>2, <2>8, <3>3 DEF UnderWay, Log
    <3> QED BY <1>5, <2>4, <3>1, <3>2, <3>4 DEF Accounted
  <2> QED BY <2>6, <2>7, <2>8
<1> QED BY <1>4, <1>5

\* Every step of the rules keeps the account of each file that stays clean.
LEMMA RulesNextAccounted ==
  ASSUME LogInv, RulesNext, NEW f \in File, clean'[f]
  PROVE  Accounted(f)'
<1> USE DEF LogInv
<1>1. ASSUME NEW w \in Worker, Open(w) \/ Write(w) \/ Log(w) PROVE Accounted(f)'
  <2>1. clean[f]
    BY <1>1 DEF Open, Write, Log
  <2> QED BY <1>1, <2>1, OnwardAccounted
<1>2. ASSUME NEW w \in Worker, Fail(w) \/ Restart(w) PROVE Accounted(f)'
  BY <1>2, AbandonedAccounted DEF Fail, Restart
<1>3. ASSUME NEW w \in Worker, Reload(w) PROVE Accounted(f)'
  BY <1>3, ElsewhereAccounted DEF Reload, Updates
<1> QED BY <1>1, <1>2, <1>3, BeginAccounted DEF RulesNext

LEMMA LogStep == LogInv /\ [Next]_vars => LogInv'
<1> SUFFICES ASSUME LogInv, [Next]_vars PROVE LogInv'
  OBVIOUS
<1>1. TypeOK'
  BY TypeStep DEF LogInv
<1>2. ASSUME NEW f \in File, clean'[f], UNCHANGED ruleVars PROVE Accounted(f)'
  <2>1. UNCHANGED <<files, logged, task, clean>>
    BY <1>2 DEF ruleVars
  <2> QED BY <1>2, <2>1, ElsewhereAccounted DEF LogInv, Updates
<1> QED BY <1>1, <1>2, RulesNextAccounted DEF Next, vars, LogInv

LEMMA InitAccounted ==
  ASSUME Init
  PROVE  \A f \in File : Accounted(f)
<1>1. files = logged /\ \A f \in File, w \in Worker : ~Updates(w, f)
  BY DEF Init, RulesInit, Updates
<1> QED BY <1>1 DEF Accounted, Alone

\* A rule file that no fault and no two updates have met is, between updates, what the
\* release and the log of changes make of it.
THEOREM LogTellsTheRules == Spec => []LogAccountsForRules
<1>1. Init => LogInv
  <2> SUFFICES ASSUME Init PROVE LogInv
    OBVIOUS
  <2>1. TypeOK
    BY AccountsInitType, RulesInitType DEF Init, TypeOK, RulesTypeOK
  <2> QED BY <2>1, InitAccounted DEF LogInv
<1> QED BY <1>1, LogStep, LogImplies, PTL DEF Spec

-----------------------------------------------------------------------------
(* Engines are complete *)

\* The rules of a file and the values an update is about to give them are loadable.
LoadableRules(data) == \A i \in DOMAIN data, x \in Field : data[i][x] \in Loadable
LoadableChange(change) == \A x \in DOMAIN change : change[x] \in Loadable

Sound(f) ==
  /\ LoadableRules(logged[f])
  /\ \A w \in Worker : Updates(w, f) => LoadableChange(task[w].change)

EngineInv ==
  /\ LogInv
  /\ \A f \in File : clean[f] /\ ~excused[f] => Sound(f)
  /\ EnginesComplete

\* The contents an update is to write are loadable when those it read are.
LEMMA ChangedLoadable ==
  ASSUME NEW t \in Task, logged[t.file] \in [1..RulesIn -> Rule],
         LoadableRules(logged[t.file]), LoadableChange(t.change), UnderWay(t)
  PROVE  LoadableRules(t.data) /\ DOMAIN t.data = 1..RulesIn
<1>1. DOMAIN t.data = 1..RulesIn
  BY DEF UnderWay
<1>2. t.rule \in 1..RulesIn
  BY DEF Task
<1>3. \A i \in 1..RulesIn :
        t.data[i] = IF i = t.rule THEN Changed(logged[t.file][i], t.change) ELSE logged[t.file][i]
  BY <1>2 DEF UnderWay
<1>4. \A i \in 1..RulesIn, x \in Field :
        /\ logged[t.file][i][x] \in Loadable
        /\ Changed(logged[t.file][i], t.change)[x] \in Loadable
  BY DEF LoadableRules, LoadableChange, Changed
<1>5. \A i \in 1..RulesIn, x \in Field : t.data[i][x] \in Loadable
  BY <1>3, <1>4
<1> QED BY <1>1, <1>5 DEF LoadableRules

LEMMA BeginSound ==
  ASSUME EngineInv, NEW w \in Worker, NEW t, NEW g \in File, NEW i \in 1..RulesIn,
         NEW change \in Changes, Begin(w, t, g, i, change),
         NEW f \in File, clean'[f], ~excused'[f]
  PROVE  Sound(f)'
<1> USE DEF EngineInv, LogInv, TypeOK
<1>1. clean[f] /\ ~excused[f] /\ (f = g => LoadableChange(change))
  BY DEF Begin, LoadableChange
<1>2. logged' = logged /\ \A v \in Worker : v # w => task'[v] = task[v]
  BY DEF Begin
<1>3. Updates(w, f)' => f = g /\ task'[w].change = change
  BY DEF Begin, Updates
<1> QED BY <1>1, <1>2, <1>3 DEF Sound, Updates

LEMMA OnwardSound ==
  ASSUME EngineInv, NEW w \in Worker, Open(w) \/ Write(w) \/ Log(w),
         NEW f \in File, clean'[f], ~excused'[f]
  PROVE  Sound(f)'
<1> USE DEF EngineInv, LogInv, TypeOK
<1>1. clean[f] /\ ~excused[f]
  BY DEF Open, Write, Log
<1>2. Sound(f) /\ Accounted(f)
  BY <1>1
<1>3. task[w] # None /\ task[w] \in Task /\ \A v \in Worker : v # w => task'[v] = task[v]
  BY DEF Open, Write, Log, RulesTypeOK
<1>4. \/ task'[w] = None
      \/ task'[w].file = task[w].file /\ task'[w].change = task[w].change
  <2>1. \/ \E step \in {"opened", "written"} : task'[w] = [task[w] EXCEPT !.step = step]
        \/ task'[w] = None
    BY DEF Open, Write, Log
  <2> QED BY <1>3, <2>1 DEF Task
<1>5. \A v \in Worker : Updates(v, f)' => LoadableChange(task'[v].change)
  BY <1>2, <1>3, <1>4 DEF Sound, Updates
<1>6. LoadableRules(logged'[f])
  <2>1. CASE ~Log(w)
    BY <1>2, <2>1 DEF Open, Write, Sound
  <2>2. CASE Log(w) /\ logged'[f] = logged[f]
    BY <1>2, <2>2 DEF Sound
  <2>3. CASE Updates(w, f) /\ logged'[f] = task[w].data
    <3>1. UnderWay(task[w]) /\ task[w].file = f /\ LoadableChange(task[w].change)
      BY <1>2, <2>3 DEF Accounted, Sound, Updates
    <3>2. logged[f] \in [1..RulesIn -> Rule] /\ LoadableRules(logged[f])
      BY <1>2 DEF Sound
    <3> QED BY <1>3, <2>3, <3>1, <3>2, ChangedLoadable
  <2> QED BY <1>1, <2>1, <2>2, <2>3, OnwardAccounted
<1> QED BY <1>5, <1>6 DEF Sound

\* What a worker finds in a file that nobody rewrites and for whose loss there is no excuse.
LEMMA FileLoads ==
  ASSUME EngineInv, NEW f \in File, clean[f], ~excused[f], \A v \in Worker : ~Rewrites(v, f)
  PROVE  LoadableRules(files[f]) /\ DOMAIN files[f] = 1..RulesIn
<1> USE DEF EngineInv, LogInv, TypeOK
<1>1. Accounted(f) /\ Sound(f)
  OBVIOUS
<1>2. logged[f] \in [1..RulesIn -> Rule] /\ LoadableRules(logged[f])
  BY <1>1 DEF Sound
<1>3. CASE \A v \in Worker : ~Updates(v, f)
  BY <1>1, <1>2, <1>3 DEF Accounted
<1>4. ASSUME NEW v \in Worker, Updates(v, f)
      PROVE  LoadableRules(files[f]) /\ DOMAIN files[f] = 1..RulesIn
  <2>1. task[v] \in Task /\ task[v].step \in {"read", "opened", "written"} /\ task[v].file = f
    BY <1>4 DEF Updates, RulesTypeOK, Task
  <2>2. task[v].step # "opened"
    BY <1>4 DEF Rewrites
  <2>3. UnderWay(task[v]) /\ LoadableChange(task[v].change)
    BY <1>1, <1>4 DEF Accounted, Sound
  <2>4. LoadableRules(task[v].data) /\ DOMAIN task[v].data = 1..RulesIn
    BY <1>2, <2>1, <2>3, ChangedLoadable
  <2>5. files[f] = logged[f] \/ files[f] = task[v].data
    BY <2>1, <2>2, <2>3 DEF UnderWay
  <2> QED BY <1>2, <2>4, <2>5
<1> QED BY <1>3, <1>4

LEMMA RestartLoads ==
  ASSUME EngineInv, NEW w \in Worker, Restart(w) \/ Reload(w),
         NEW f \in File, clean'[f], ~excused'[f]
  PROVE  clean[f] /\ ~excused[f] /\ DOMAIN engine'[w][f] = 1..RulesIn
<1> USE DEF EngineInv, LogInv, TypeOK
<1>1. /\ clean[f] /\ files'[f] = files[f]
      /\ Updates(w, f) => task[w].step = "read"
  BY AbandonedAccounted DEF Restart, Reload, Updates
<1>2. ~excused[f] /\ \A v \in Worker \ {w} : ~Rewrites(v, f)
  BY DEF Restart, Reload, Excuse
<1>3. ~Rewrites(w, f)
  BY <1>1 DEF Rewrites
<1>4. LoadableRules(files'[f]) /\ DOMAIN files'[f] = 1..RulesIn
  BY <1>1, <1>2, <1>3, FileLoads
<1>5. engine'[w] = Load(files')
  BY DEF Restart, Reload
<1>6. engine'[w][f] = files'[f]
  BY <1>4, <1>5 DEF Load, LoadableRules
<1> QED BY <1>1, <1>2, <1>4, <1>6

LEMMA EngineStep == EngineInv /\ [Next]_vars => EngineInv'
<1> SUFFICES ASSUME EngineInv, [Next]_vars PROVE EngineInv'
  OBVIOUS
<1> USE DEF EngineInv
<1>1. LogInv'
  BY LogStep
<1>2. CASE UNCHANGED ruleVars
  <2>1. UNCHANGED <<engine, clean, excused, logged, task>>
    BY <1>2 DEF ruleVars
  <2> QED BY <1>1, <2>1 DEF Sound, Updates, EnginesComplete
<1>3. ASSUME NEW w \in Worker,
             \/ Open(w) \/ Write(w) \/ Log(w)
             \/ \E t \in tokens, f \in File, i \in 1..RulesIn, change \in Changes :
                  Begin(w, t, f, i, change)
      PROVE  EngineInv'
  <2>1. /\ engine' = engine
        /\ \A f \in File : (~clean[f] => ~clean'[f]) /\ (excused[f] => excused'[f])
    BY <1>3 DEF Open, Write, Log, Begin, LogInv, TypeOK
  <2>2. EnginesComplete'
    BY <2>1 DEF EnginesComplete
  <2>3. \A f \in File : clean'[f] /\ ~excused'[f] => Sound(f)'
    BY <1>3, BeginSound, OnwardSound
  <2> QED BY <1>1, <2>2, <2>3
<1>4. ASSUME NEW w \in Worker, Fail(w) \/ Restart(w) \/ Reload(w) PROVE EngineInv'
  <2>1. \A f \in File : clean'[f] => clean[f]
    BY <1>4, AbandonedAccounted DEF Fail, Restart, Reload
  <2>2. \A f \in File : excused[f] => excused'[f]
    BY <1>4 DEF Fail, Restart, Reload, Excuse, LogInv, TypeOK
  <2>3. logged' = logged /\ \A v \in Worker : task'[v] = task[v] \/ task'[v] = None
    BY <1>4 DEF Fail, Restart, Reload, Abandoned, LogInv, TypeOK
  <2>4. \A f \in File : clean'[f] /\ ~excused'[f] => Sound(f)'
    BY <2>1, <2>2, <2>3 DEF Sound, Updates
  <2>5. ASSUME NEW v \in Worker, NEW f \in File, clean'[f], ~excused'[f]
        PROVE  DOMAIN engine'[v][f] = 1..RulesIn
    <3>1. CASE engine'[v] = engine[v]
      BY <2>1, <2>2, <2>5, <3>1 DEF EnginesComplete
    <3>2. CASE (Restart(w) \/ Reload(w)) /\ v = w
      BY <2>5, <3>2, RestartLoads
    <3> QED BY <1>4, <3>1, <3>2 DEF Fail, Restart, Reload, LogInv, TypeOK
  <2>6. EnginesComplete'
    <3> SUFFICES ASSUME NEW v \in Worker, NEW f \in File, DOMAIN engine'[v][f] # 1..RulesIn
                 PROVE  ~clean'[f] \/ excused'[f]
      BY DEF EnginesComplete
    <3> QED BY <2>5
  <2> QED BY <1>1, <2>4, <2>6
<1> QED BY <1>2, <1>3, <1>4 DEF Next, vars, RulesNext

\* A worker lacks rules of a domain only after a fault, after two updates that met, after
\* a start during a rewriting or after a value the schema refuses.
THEOREM EnginesLackNothingUnexcused == Spec => []EnginesComplete
<1>1. Init => EngineInv
  <2> SUFFICES ASSUME Init PROVE EngineInv
    OBVIOUS
  <2>1. files = logged /\ \A f \in File, w \in Worker : ~Updates(w, f)
    BY DEF Init, RulesInit, Updates
  <2>2. LogInv
    BY InitAccounted, AccountsInitType, RulesInitType DEF Init, TypeOK, RulesTypeOK, LogInv
  <2>3. \A f \in File : LoadableRules(files[f]) /\ DOMAIN files[f] = 1..RulesIn
    BY ValuesAssumption DEF Init, RulesInit, Whole, LoadableRules
  <2>4. EnginesComplete
    BY <2>3 DEF Init, RulesInit, Load, LoadableRules, EnginesComplete
  <2> QED BY <2>1, <2>2, <2>3, <2>4 DEF EngineInv, Sound
<1>2. EngineInv => EnginesComplete
  BY DEF EngineInv
<1> QED BY <1>1, <1>2, EngineStep, PTL DEF Spec
=============================================================================
