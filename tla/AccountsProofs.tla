----------------------------- MODULE AccountsProofs -----------------------------
(***************************************************************************)
(* Names, tokens and the routes of administrators, for any number of calls, *)
(* names, passwords, MySQL errors and writes without the service.           *)
(***************************************************************************)
EXTENDS Accounts, TLAPS

Visits == VisitOp(tokens \cup {NoToken})

\* A call keeps the kind of request its steps belong to; only "me" looks up a profile.
StepsOK ==
  \A c \in Calls :
    /\ pc[c] \in {"lookup", "insert", "find", "created", "token"} => op[c] \in SignOp
    /\ pc[c] \in {"auth", "profile", "served"} => op[c] \in Visits
    /\ pc[c] = "profile" => op[c].route = "me"

\* AUTO_INCREMENT is ahead of every id that an account has or a token names, so
\* that the id of a deleted account is never another's.
IdsUsed ==
  /\ \A x \in accounts : x.id <= lastId
  /\ \A t \in tokens : t.sub <= lastId /\ pc[t.login] = "token"

\* While nobody has written table users without the service, nobody is an
\* administrator; an account and the tokens of its id have the same role.
RolesOK ==
  /\ outside = 0 => /\ \A x \in accounts : x.role = "USER"
                    /\ \A t \in tokens : t.role = "USER"
  /\ \A t \in tokens, x \in accounts : x.id = t.sub => x.role = t.role

\* A route of administrators is served on a token that says ADMIN.
ServedOK ==
  \A c \in Calls :
    pc[c] = "served" /\ op[c].route = "admin" =>
      op[c].token \in tokens /\ op[c].token.role = "ADMIN"

AccountsInv ==
  /\ TypeOK /\ StepsOK /\ IdsUsed
  /\ OneAccountPerName /\ AccountsStayTheirs /\ RolesOK /\ ServedOK

-----------------------------------------------------------------------------
(* Steps *)

\* INSERT adds one account under a new name and a new id.
Inserted(n, w, role) ==
  /\ accounts' = accounts \cup {Row(n, w, role)}
  /\ lastId' = lastId + 1
  /\ \A x \in accounts : x.name # n /\ x.id # Row(n, w, role).id

LEMMA CreateInserts ==
  ASSUME TypeOK, IdsUsed, NEW n \in Names, NEW w \in Passwords, NEW role \in {"USER", "ADMIN"},
         CreateUser(n, w, role)
  PROVE  /\ Inserted(n, w, role)
         /\ Row(n, w, role) \in Account /\ Row(n, w, role).id = lastId + 1
         /\ Row(n, w, role).name = n /\ Row(n, w, role).password = w
         /\ Row(n, w, role).role = role
BY DEF TypeOK, IdsUsed, CreateUser, Taken, Inserted, Row, Account

\* What a step of a call may do: look at the tables, insert an account, or issue a
\* token of an account it knows the password of.
Looks(c) ==
  /\ UNCHANGED <<accounts, lastId, tokens, expired, op, outside>>
  /\ \E l \in {"insert", "conflict", "error", "unauthorized", "profile", "served",
               "forbidden", "not_found"} :
       /\ pc' = [pc EXCEPT ![c] = l]
       /\ l = "insert" => pc[c] = "lookup"
       /\ l = "profile" => pc[c] = "auth" /\ op[c].route = "me"
       /\ l = "served" => \/ pc[c] = "profile"
                          \/ pc[c] = "auth" /\ op[c].route \in {"public"}
                          \/ /\ pc[c] = "auth" /\ op[c].route = "admin"
                             /\ op[c].token \in tokens /\ op[c].token.role = "ADMIN"

Registers(c) ==
  /\ pc[c] = "insert" /\ CreateUser(op[c].name, op[c].password, "USER")
  /\ UNCHANGED <<tokens, expired, op, outside>>
  /\ \E l \in {"created", "error"} : pc' = [pc EXCEPT ![c] = l]

LogsIn(c) ==
  /\ pc[c] = "find"
  /\ \E x \in Known(op[c]) :
       tokens' = tokens \cup {[sub |-> x.id, role |-> x.role, login |-> c]}
  /\ UNCHANGED <<accounts, lastId, expired, op, outside>>
  /\ pc' = [pc EXCEPT ![c] = "token"]

LEMMA HandleSteps ==
  ASSUME TypeOK, NEW c \in Calls, Handle(c)
  PROVE  /\ Looks(c) \/ Registers(c) \/ LogsIn(c)
         /\ pc[c] \in InProgress
         /\ errors' \in 0 .. MaxErrors
<1> USE DEF Goto, tableVars, tokenVars, InProgress
<1>1. errors' = errors \/ (errors < MaxErrors /\ errors' = errors + 1)
  BY DEF Handle, Lookup, Insert, Login, Authorize, Me, Fail
<1>2. errors' \in 0 .. MaxErrors
  BY <1>1, AccountsAssumption DEF TypeOK
<1>3. CASE Lookup(c)
  BY <1>2, <1>3 DEF Lookup, Looks, Fail
<1>4. CASE Insert(c)
  BY <1>2, <1>4 DEF Insert, Looks, Registers, Fail
<1>5. CASE Login(c)
  BY <1>2, <1>5 DEF Login, Looks, LogsIn, Fail
<1>6. CASE Authorize(c)
  BY <1>2, <1>6 DEF Authorize, Looks
<1>7. CASE Me(c)
  BY <1>2, <1>7 DEF Me, Looks, Fail
<1> QED
  BY <1>3, <1>4, <1>5, <1>6, <1>7 DEF Handle

Arrives(c) ==
  /\ pc[c] = "idle" /\ UNCHANGED <<accounts, lastId, tokens, expired, outside, errors>>
  /\ \E p \in SignOp \cup Visits, l \in {"lookup", "find", "auth"} :
       /\ op' = [op EXCEPT ![c] = p]
       /\ pc' = [pc EXCEPT ![c] = l]
       /\ p \in Visits <=> l = "auth"
       /\ p \in SignOp <=> l # "auth"

LEMMA ArriveSteps == ASSUME NEW c \in Calls, Arrive(c) PROVE Arrives(c)
<1>1. PICK p \in SignOp \cup Visits :
        op' = [op EXCEPT ![c] = p] /\ pc' = [pc EXCEPT ![c] = Entry[p.kind]]
  BY DEF Arrive, Goto, Visits
<1>2. /\ \A q \in SignOp : q.kind \in {"register", "login"}
      /\ \A q \in Visits : q.kind = "visit"
  BY DEF SignOp, Visits, VisitOp
<1>3. Entry["register"] = "lookup" /\ Entry["login"] = "find" /\ Entry["visit"] = "auth"
  BY DEF Entry
<1>4. CASE p \in SignOp
  <2>1. p \notin Visits /\ Entry[p.kind] \in {"lookup", "find"}
    BY <1>2, <1>3, <1>4
  <2> QED
    BY <1>1, <1>4, <2>1 DEF Arrive, Arrives, tableVars, tokenVars
<1>5. CASE p \in Visits
  <2>1. p \notin SignOp /\ Entry[p.kind] = "auth"
    BY <1>2, <1>3, <1>5
  <2> QED
    BY <1>1, <1>5, <2>1 DEF Arrive, Arrives, tableVars, tokenVars
<1> QED
  BY <1>4, <1>5

\* Somebody inserts an administrator, or deletes an account.
Appoints(n, w) ==
  CreateUser(n, w, "ADMIN") /\ UNCHANGED <<tokens, expired, pc, op, errors>>

Deletes(x) ==
  /\ accounts' = accounts \ {x}
  /\ UNCHANGED <<lastId, tokens, expired, pc, op, errors>>

Quiet ==
  /\ UNCHANGED <<accounts, lastId, tokens, pc, op, outside, errors>>
  /\ expired' \in SUBSET tokens

LEMMA NextSteps ==
  ASSUME TypeOK, [Next]_vars
  PROVE  \/ \E c \in Calls :
              \/ Arrives(c)
              \/ /\ Looks(c) \/ Registers(c) \/ LogsIn(c)
                 /\ pc[c] \in InProgress /\ errors' \in 0 .. MaxErrors
         \/ /\ \/ \E n \in Names, w \in Passwords : Appoints(n, w)
               \/ \E x \in accounts : Deletes(x)
            /\ outside < MaxOutside /\ outside' = outside + 1
         \/ Quiet
<1>1. CASE UNCHANGED vars
  BY <1>1 DEF vars, tableVars, tokenVars, Quiet, TypeOK
<1>2. CASE \E t \in tokens : Expire(t)
  BY <1>2 DEF Expire, tableVars, Quiet, TypeOK
<1>3. CASE Outside
  BY <1>3 DEF Outside, Appoints, Deletes, tokenVars
<1>4. CASE \E c \in Calls : Arrive(c)
  BY <1>4, ArriveSteps
<1>5. CASE \E c \in Calls : Handle(c)
  BY <1>5, HandleSteps
<1> QED
  BY <1>1, <1>2, <1>3, <1>4, <1>5 DEF Next

-----------------------------------------------------------------------------
(* What a step keeps *)

LEMMA StepsStep ==
  ASSUME TypeOK, StepsOK, IdsUsed, [Next]_vars
  PROVE  StepsOK' /\ \A v \in Visits : v \in Visits'
<1>0. /\ pc \in [Calls -> {"idle"} \cup InProgress \cup Answers]
      /\ op \in [Calls -> SignOp \cup Visits \cup {NoOp}]
  BY DEF TypeOK, Visits
<1>1. tokens \subseteq tokens' => \A v \in Visits : v \in Visits'
  BY DEF Visits, VisitOp
<1>2. ASSUME NEW c \in Calls, Arrives(c)
      PROVE  StepsOK' /\ \A v \in Visits : v \in Visits'
  <2>1. Visits' = Visits
    BY <1>2 DEF Arrives, Visits, VisitOp
  <2>2. PICK p \in SignOp \cup Visits, l \in {"lookup", "find", "auth"} :
          /\ op' = [op EXCEPT ![c] = p]
          /\ pc' = [pc EXCEPT ![c] = l]
          /\ p \in Visits <=> l = "auth"
          /\ p \in SignOp <=> l # "auth"
    BY <1>2 DEF Arrives
  <2>3. /\ op'[c] = p /\ pc'[c] = l
        /\ \A d \in Calls : d # c => op'[d] = op[d] /\ pc'[d] = pc[d]
    BY <1>0, <2>2
  <2> QED
    BY <2>1, <2>2, <2>3 DEF StepsOK
<1>3. ASSUME NEW c \in Calls, Looks(c)
      PROVE  StepsOK' /\ \A v \in Visits : v \in Visits'
  <2>1. Visits' = Visits /\ op' = op
    BY <1>3 DEF Looks, Visits, VisitOp
  <2>2. PICK l : /\ pc' = [pc EXCEPT ![c] = l]
                 /\ l \in {"insert", "conflict", "error", "unauthorized", "profile", "served",
                           "forbidden", "not_found"}
                 /\ l = "insert" => pc[c] = "lookup"
                 /\ l = "profile" => pc[c] = "auth" /\ op[c].route = "me"
                 /\ l = "served" => pc[c] \in {"profile", "auth"}
    BY <1>3 DEF Looks
  <2>3. pc'[c] = l /\ \A d \in Calls : d # c => pc'[d] = pc[d]
    BY <1>0, <2>2
  <2> QED
    BY <2>1, <2>2, <2>3 DEF StepsOK
<1>4. ASSUME NEW c \in Calls, Registers(c) \/ LogsIn(c)
      PROVE  StepsOK' /\ \A v \in Visits : v \in Visits'
  <2>1. tokens \subseteq tokens' /\ op' = op /\ pc[c] \in {"insert", "find"}
    BY <1>4 DEF Registers, LogsIn
  <2>2. PICK l \in {"created", "error", "token"} : pc' = [pc EXCEPT ![c] = l]
    BY <1>4 DEF Registers, LogsIn
  <2>3. pc'[c] = l /\ \A d \in Calls : d # c => pc'[d] = pc[d]
    BY <1>0, <2>2
  <2> QED
    BY <1>1, <2>1, <2>2, <2>3 DEF StepsOK
<1>5. ASSUME UNCHANGED <<tokens, pc, op>>
      PROVE  StepsOK' /\ \A v \in Visits : v \in Visits'
  BY <1>5 DEF StepsOK, Visits, VisitOp
<1> QED
  BY <1>2, <1>3, <1>4, <1>5, NextSteps DEF Appoints, Deletes, Quiet

\* A call that has a token or is in some other way answered stays so.
LEMMA TokensStay ==
  ASSUME TypeOK, [Next]_vars, NEW c \in Calls, pc[c] \in Answers
  PROVE  pc'[c] = pc[c] /\ op'[c] = op[c]
<1>0. /\ pc \in [Calls -> {"idle"} \cup InProgress \cup Answers]
      /\ op \in [Calls -> SignOp \cup Visits \cup {NoOp}]
  BY DEF TypeOK, Visits
<1>1. \A l \in Answers : l # "idle" /\ l \notin InProgress
  BY DEF Answers, InProgress
<1>2. ASSUME NEW d \in Calls, Arrives(d)
      PROVE  pc'[c] = pc[c] /\ op'[c] = op[c]
  BY <1>0, <1>1, <1>2 DEF Arrives
<1>3. ASSUME NEW d \in Calls, Looks(d) \/ Registers(d) \/ LogsIn(d), pc[d] \in InProgress
      PROVE  pc'[c] = pc[c] /\ op'[c] = op[c]
  BY <1>0, <1>1, <1>3 DEF Looks, Registers, LogsIn
<1> QED
  BY <1>2, <1>3, NextSteps DEF Appoints, Deletes, Quiet

\* An account that is new has an id that nobody ever had.
LEMMA AccountsStep ==
  ASSUME TypeOK, StepsOK, IdsUsed, [Next]_vars
  PROVE  /\ accounts' \in SUBSET Account /\ lastId' \in Nat
         /\ \/ accounts' \subseteq accounts /\ lastId' = lastId
            \/ \E n \in Names, w \in Passwords, role \in {"USER", "ADMIN"} : Inserted(n, w, role)
         /\ \A x \in accounts' \ accounts : x.id = lastId' /\ x.id > lastId
<1> DEFINE good ==
      /\ accounts' \in SUBSET Account /\ lastId' \in Nat
      /\ \/ accounts' \subseteq accounts /\ lastId' = lastId
         \/ \E n \in Names, w \in Passwords, role \in {"USER", "ADMIN"} : Inserted(n, w, role)
      /\ \A x \in accounts' \ accounts : x.id = lastId' /\ x.id > lastId
<1> HIDE DEF good
<1>0. accounts \in SUBSET Account /\ lastId \in Nat
  BY DEF TypeOK
<1>1. ASSUME NEW n \in Names, NEW w \in Passwords, NEW role \in {"USER", "ADMIN"},
             CreateUser(n, w, role)
      PROVE  good
  <2>1. /\ Inserted(n, w, role)
        /\ Row(n, w, role) \in Account /\ Row(n, w, role).id = lastId + 1
    BY <1>1, CreateInserts
  <2> QED
    BY <1>0, <2>1 DEF Inserted, good
<1>2. ASSUME NEW c \in Calls, Registers(c)
      PROVE  good
  <2>1. op[c] \in SignOp
    BY <1>2 DEF Registers, StepsOK
  <2>2. op[c].name \in Names /\ op[c].password \in Passwords
    BY <2>1 DEF SignOp
  <2> QED
    BY <1>1, <1>2, <2>2 DEF Registers
<1>3. ASSUME accounts' \subseteq accounts, lastId' = lastId
      PROVE  good
  BY <1>0, <1>3 DEF good
<1>4. ASSUME NEW n \in Names, NEW w \in Passwords, Appoints(n, w)
      PROVE  good
  BY <1>1, <1>4 DEF Appoints
<1>5. good
  <2>1. \/ accounts' \subseteq accounts /\ lastId' = lastId
        \/ \E c \in Calls : Registers(c)
        \/ \E n \in Names, w \in Passwords : Appoints(n, w)
    BY NextSteps DEF Arrives, Looks, LogsIn, Deletes, Quiet
  <2> QED
    BY <1>2, <1>3, <1>4, <2>1
<1> QED
  BY <1>5 DEF good

\* A token that is new is the token of an account whose password its call gave.
LEMMA NewTokens ==
  ASSUME TypeOK, StepsOK, [Next]_vars
  PROVE  /\ tokens \subseteq tokens'
         /\ \/ tokens' = tokens
            \/ /\ accounts' = accounts /\ lastId' = lastId /\ outside' = outside
               /\ \E c \in Calls :
                    /\ pc'[c] = "token" /\ op'[c] = op[c]
                    /\ \E x \in Known(op[c]) :
                         tokens' = tokens \cup {[sub |-> x.id, role |-> x.role, login |-> c]}
<1>1. ASSUME NEW c \in Calls, LogsIn(c)
      PROVE  pc'[c] = "token"
  BY <1>1 DEF LogsIn, TypeOK
<1> QED
  BY <1>1, NextSteps DEF LogsIn, Arrives, Looks, Registers, Appoints, Deletes, Quiet

LEMMA AccountsTypeStep ==
  ASSUME TypeOK, StepsOK, IdsUsed, [Next]_vars
  PROVE  TypeOK'
<1>0. /\ pc \in [Calls -> {"idle"} \cup InProgress \cup Answers]
      /\ op \in [Calls -> SignOp \cup Visits \cup {NoOp}]
      /\ tokens \in SUBSET Token /\ expired \in SUBSET tokens
      /\ outside \in 0 .. MaxOutside /\ errors \in 0 .. MaxErrors
      /\ MaxOutside \in Nat /\ MaxErrors \in Nat /\ accounts \in SUBSET Account
  BY AccountsAssumption DEF TypeOK, Visits
<1>1. accounts' \in SUBSET Account /\ lastId' \in Nat
  BY AccountsStep
<1>2. tokens' \in SUBSET Token
  <2>1. ASSUME NEW c \in Calls, NEW x \in Known(op[c])
        PROVE  [sub |-> x.id, role |-> x.role, login |-> c] \in Token
    BY <1>0 DEF Known, Account, Token
  <2> QED
    BY <1>0, <2>1, NewTokens
<1>3. expired' \in SUBSET tokens'
  BY <1>0, NewTokens, NextSteps DEF LogsIn, Arrives, Looks, Registers, Appoints, Deletes, Quiet
<1>4. outside' \in 0 .. MaxOutside /\ errors' \in 0 .. MaxErrors
  BY <1>0, NextSteps DEF LogsIn, Arrives, Looks, Registers, Appoints, Deletes, Quiet
<1>5. pc' \in [Calls -> {"idle"} \cup InProgress \cup Answers]
  BY <1>0, NextSteps DEF LogsIn, Arrives, Looks, Registers, Appoints, Deletes, Quiet,
     InProgress, Answers
<1>6. op' \in [Calls -> SignOp \cup Visits' \cup {NoOp}]
  <2>1. op' \in [Calls -> SignOp \cup Visits \cup {NoOp}]
    BY <1>0, NextSteps DEF LogsIn, Arrives, Looks, Registers, Appoints, Deletes, Quiet
  <2> QED
    BY <2>1, StepsStep
<1> QED
  BY <1>1, <1>2, <1>3, <1>4, <1>5, <1>6 DEF TypeOK, Visits

LEMMA IdsStep ==
  ASSUME TypeOK, StepsOK, IdsUsed, [Next]_vars
  PROVE  IdsUsed'
<1>0. /\ \A x \in accounts : x.id \in Nat /\ x.id <= lastId
      /\ \A t \in tokens : t.sub \in Nat /\ t.sub <= lastId /\ t.login \in Calls
                           /\ pc[t.login] = "token"
      /\ lastId \in Nat /\ lastId' \in {lastId, lastId + 1}
  <2>1. lastId' \in {lastId, lastId + 1}
    BY AccountsStep DEF Inserted
  <2> QED
    BY <2>1 DEF TypeOK, IdsUsed, Account, Token
<1>1. ASSUME NEW x \in accounts'
      PROVE  x.id <= lastId'
  <2>1. CASE x \in accounts
    BY <1>0, <2>1
  <2>2. CASE x \notin accounts
    BY <1>0, <2>2, AccountsStep
  <2> QED
    BY <2>1, <2>2
<1>2. ASSUME NEW t \in tokens'
      PROVE  t.sub <= lastId' /\ pc'[t.login] = "token"
  <2>1. CASE t \in tokens
    <3>1. pc'[t.login] = "token"
      BY <1>0, <2>1, TokensStay DEF Answers
    <3>2. t.sub <= lastId'
      BY <1>0, <2>1
    <3> QED
      BY <3>1, <3>2
  <2>2. CASE t \notin tokens
    <3>1. PICK c \in Calls : \E x \in Known(op[c]) :
                               /\ t = [sub |-> x.id, role |-> x.role, login |-> c]
                               /\ pc'[c] = "token" /\ lastId' = lastId
      BY <2>2, NewTokens
    <3> QED
      BY <1>0, <3>1 DEF Known
  <2> QED
    BY <2>1, <2>2
<1> QED
  BY <1>1, <1>2 DEF IdsUsed

LEMMA OneAccountStep ==
  ASSUME TypeOK, StepsOK, IdsUsed, OneAccountPerName, [Next]_vars
  PROVE  OneAccountPerName'
<1>1. CASE accounts' \subseteq accounts
  BY <1>1 DEF OneAccountPerName
<1>2. ASSUME NEW n \in Names, NEW w \in Passwords, NEW role \in {"USER", "ADMIN"},
             Inserted(n, w, role)
      PROVE  OneAccountPerName'
  <2>1. Row(n, w, role).name = n
    BY DEF Row
  <2> QED
    BY <1>2, <2>1 DEF Inserted, OneAccountPerName
<1> QED
  BY <1>1, <1>2, AccountsStep

\* Until somebody writes the table without the service, accounts only come, and
\* only by registering.
LEMMA OnlyRegistered ==
  ASSUME TypeOK, [Next]_vars, outside' = 0
  PROVE  /\ outside = 0
         /\ accounts \subseteq accounts'
         /\ \A x \in accounts' \ accounts : x.role = "USER"
<1>0. outside \in Nat
  BY AccountsAssumption DEF TypeOK
<1>1. outside' # outside + 1
  BY <1>0
<1>2. \/ accounts' = accounts /\ outside' = outside
      \/ outside' = outside /\ \E c \in Calls : Registers(c)
  BY <1>1, NextSteps DEF LogsIn, Arrives, Looks, Registers, Appoints, Deletes, Quiet
<1> QED
  BY <1>2 DEF Registers, CreateUser, Row

\* A call that is told its account is created has created it.
LEMMA CreatedBy ==
  ASSUME TypeOK, [Next]_vars, NEW c \in Calls, pc'[c] = "created", pc[c] # "created"
  PROVE  Registers(c) /\ op' = op
<1>0. pc \in [Calls -> {"idle"} \cup InProgress \cup Answers]
  BY DEF TypeOK
<1>1. ASSUME NEW d \in Calls, Registers(d)
      PROVE  d = c
  BY <1>0, <1>1 DEF Registers
<1>2. ASSUME NEW d \in Calls, Arrives(d) \/ Looks(d) \/ LogsIn(d)
      PROVE  FALSE
  BY <1>0, <1>2 DEF Arrives, Looks, LogsIn
<1> QED
  BY <1>1, <1>2, NextSteps DEF Registers, Appoints, Deletes, Quiet

LEMMA TheirsStep ==
  ASSUME TypeOK, StepsOK, IdsUsed, OneAccountPerName, AccountsStayTheirs, [Next]_vars
  PROVE  AccountsStayTheirs'
<1>1. ASSUME NEW c \in Calls, pc'[c] = "created", outside' = 0
      PROVE  \E x \in accounts' : x.name = op'[c].name /\ x.password = op'[c].password
  <2>1. CASE pc[c] = "created"
    <3>1. PICK x \in accounts : x.name = op[c].name /\ x.password = op[c].password
      BY <1>1, <2>1, OnlyRegistered DEF AccountsStayTheirs, Known
    <3>2. op'[c] = op[c]
      BY <2>1, TokensStay DEF Answers
    <3> QED
      BY <1>1, <3>1, <3>2, OnlyRegistered
  <2>2. CASE pc[c] # "created"
    <3>1. Registers(c) /\ op' = op
      BY <1>1, <2>2, CreatedBy
    <3> DEFINE x == Row(op[c].name, op[c].password, "USER")
    <3>2. x \in accounts'
      BY <3>1 DEF Registers, CreateUser
    <3>3. x.name = op'[c].name /\ x.password = op'[c].password
      BY <3>1 DEF Row
    <3> QED
      BY <3>2, <3>3
  <2> QED
    BY <2>1, <2>2
<1>2. ASSUME NEW t \in tokens', NEW x \in accounts', x.id = t.sub
      PROVE  x.name = op'[t.login].name /\ x.password = op'[t.login].password
  <2>1. CASE t \in tokens
    <3>1. t.sub <= lastId /\ pc[t.login] = "token" /\ t.login \in Calls
          /\ t.sub \in Nat /\ lastId \in Nat
      BY <2>1 DEF IdsUsed, TypeOK, Token
    <3>2. x \in accounts
      BY <1>2, <3>1, AccountsStep
    <3>3. x \in Known(op[t.login])
      BY <1>2, <2>1, <3>2 DEF AccountsStayTheirs
    <3>4. op'[t.login] = op[t.login]
      BY <3>1, TokensStay DEF Answers
    <3> QED
      BY <3>3, <3>4 DEF Known
  <2>2. CASE t \notin tokens
    <3>1. PICK c \in Calls : /\ accounts' = accounts /\ op'[c] = op[c]
                             /\ \E y \in Known(op[c]) :
                                  t = [sub |-> y.id, role |-> y.role, login |-> c]
      BY <2>2, NewTokens
    <3>2. PICK y \in Known(op[c]) : t = [sub |-> y.id, role |-> y.role, login |-> c]
      BY <3>1
    <3>3. x = y
      BY <1>2, <3>1, <3>2 DEF Known, OneAccountPerName
    <3> QED
      BY <3>1, <3>2, <3>3 DEF Known
  <2> QED
    BY <2>1, <2>2
<1>3. \A c \in Calls : pc'[c] = "created" /\ outside' = 0 => Known(op[c])' # {}
  BY <1>1 DEF Known
<1>4. \A t \in tokens', x \in accounts' : x.id = t.sub => x \in Known(op[t.login])'
  BY <1>2 DEF Known
<1> QED
  BY <1>3, <1>4 DEF AccountsStayTheirs, Known

LEMMA RolesStep ==
  ASSUME TypeOK, StepsOK, IdsUsed, OneAccountPerName, RolesOK, [Next]_vars
  PROVE  RolesOK'
<1>1. ASSUME NEW t \in tokens', t \notin tokens
      PROVE  /\ accounts' = accounts /\ outside' = outside
             /\ \E y \in accounts : t.sub = y.id /\ t.role = y.role
  BY <1>1, NewTokens DEF Known
<1>2. ASSUME outside' = 0
      PROVE  /\ \A x \in accounts' : x.role = "USER"
             /\ \A t \in tokens' : t.role = "USER"
  <2>1. outside = 0 /\ \A x \in accounts' : x.role = "USER"
    BY <1>2, OnlyRegistered DEF RolesOK
  <2> QED
    BY <1>1, <2>1 DEF RolesOK
<1>3. ASSUME NEW t \in tokens', NEW x \in accounts', x.id = t.sub
      PROVE  x.role = t.role
  <2>1. CASE t \in tokens
    <3>1. t.sub <= lastId /\ t.sub \in Nat /\ lastId \in Nat
      BY <2>1 DEF IdsUsed, TypeOK, Token
    <3>2. x \in accounts
      BY <1>3, <3>1, AccountsStep
    <3> QED
      BY <1>3, <2>1, <3>2 DEF RolesOK
  <2>2. CASE t \notin tokens
    BY <1>1, <1>3, <2>2 DEF OneAccountPerName
  <2> QED
    BY <2>1, <2>2
<1> QED
  BY <1>2, <1>3 DEF RolesOK

LEMMA ServedStep ==
  ASSUME TypeOK, StepsOK, ServedOK, [Next]_vars
  PROVE  ServedOK'
<1>0. pc \in [Calls -> {"idle"} \cup InProgress \cup Answers]
  BY DEF TypeOK
<1> SUFFICES ASSUME NEW c \in Calls, pc'[c] = "served", op'[c].route = "admin"
             PROVE  op'[c].token \in tokens' /\ op'[c].token.role = "ADMIN"
  BY DEF ServedOK
<1>1. CASE pc[c] = "served"
  BY <1>1, TokensStay, NewTokens DEF Answers, ServedOK
<1>2. CASE pc[c] # "served"
  <2>1. Looks(c)
    <3>1. ASSUME NEW d \in Calls, Arrives(d) \/ Registers(d) \/ LogsIn(d)
          PROVE  FALSE
      BY <1>0, <1>2, <3>1 DEF Arrives, Registers, LogsIn
    <3>2. ASSUME NEW d \in Calls, Looks(d)
          PROVE  d = c
      BY <1>0, <1>2, <3>2 DEF Looks
    <3> QED
      BY <1>2, <3>1, <3>2, NextSteps DEF Appoints, Deletes, Quiet
  <2>2. op' = op /\ tokens' = tokens /\ op[c].route = "admin"
    BY <2>1 DEF Looks
  <2> QED
    BY <1>0, <2>1, <2>2 DEF Looks, StepsOK
<1> QED
  BY <1>1, <1>2

-----------------------------------------------------------------------------
(* What holds in every behaviour *)

\* The inductive invariant that the theorems below are parts of
THEOREM AccountsInvariant == Spec => []AccountsInv
<1>1. Init => AccountsInv
  BY AccountsAssumption DEF Init, AccountsInv, TypeOK, StepsOK, IdsUsed, OneAccountPerName,
     AccountsStayTheirs, RolesOK, ServedOK, InProgress, Answers
<1>2. AccountsInv /\ [Next]_vars => AccountsInv'
  <2> SUFFICES ASSUME AccountsInv, [Next]_vars PROVE AccountsInv'
    OBVIOUS
  <2>1. TypeOK /\ StepsOK /\ IdsUsed /\ OneAccountPerName /\ AccountsStayTheirs
        /\ RolesOK /\ ServedOK
    BY DEF AccountsInv
  <2>2. TypeOK' /\ StepsOK' /\ IdsUsed'
    BY <2>1, AccountsTypeStep, StepsStep, IdsStep
  <2>3. OneAccountPerName' /\ AccountsStayTheirs' /\ RolesOK' /\ ServedOK'
    BY <2>1, OneAccountStep, TheirsStep, RolesStep, ServedStep
  <2> QED
    BY <2>2, <2>3 DEF AccountsInv
<1> QED
  BY <1>1, <1>2, PTL DEF Spec

\* Accounts, tokens and calls keep their types; a token that expired was issued.
THEOREM AccountTypes == Spec => []TypeOK
BY AccountsInvariant, PTL DEF AccountsInv

\* However many registrations pass the lookup of UserService.Register together,
\* a name has one account, and no id is given twice.
THEOREM OneAccount == Spec => []OneAccountPerName
BY AccountsInvariant, PTL DEF AccountsInv

\* An account stays with those who know its password, and a token stands for the
\* account of its login, although names come free again and are taken by others.
THEOREM AccountsAreKept == Spec => []AccountsStayTheirs
BY AccountsInvariant, PTL DEF AccountsInv

\* Nobody gets through middleware.RequireAdmin by registering and logging in, and
\* a token that does get through is not a user's.
THEOREM AdminRoutesAreGuarded == Spec => []AdminRoutesNeedAppointment
<1>1. AccountsInv => AdminRoutesNeedAppointment
  <2> SUFFICES ASSUME AccountsInv, NEW c \in Calls, pc[c] = "served", op[c].route = "admin"
               PROVE  /\ outside > 0
                      /\ \A x \in accounts : x.id = op[c].token.sub => x.role = "ADMIN"
    BY DEF AdminRoutesNeedAppointment
  <2>1. op[c].token \in tokens /\ op[c].token.role = "ADMIN"
    BY DEF AccountsInv, ServedOK
  <2>2. outside # 0
    BY <2>1 DEF AccountsInv, RolesOK
  <2>3. outside \in Nat
    BY AccountsAssumption DEF AccountsInv, TypeOK
  <2> QED
    BY <2>1, <2>2, <2>3 DEF AccountsInv, RolesOK
<1> QED
  BY <1>1, AccountsInvariant, PTL
=============================================================================
