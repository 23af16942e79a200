----------------------------- MODULE ForkRoles_proofs -----------------------------
(***************************************************************************)
(* The roles of the children of dap_frd: for every number of forks for     *)
(* detect data, and of forks and failures of fork.                         *)
(***************************************************************************)
EXTENDS ForkRoles, SequenceTheorems, TLAPS

HasChld == stack \in {<<"main", "chld">>, <<"main", "chld", "term">>,
                      <<"main", "term", "chld">>}
HasTerm == stack \in {<<"main", "term">>, <<"main", "chld", "term">>,
                      <<"main", "term", "chld">>}

(* A handler is at a step only while it is on the stack, and the parent is *)
(* gone when that of SIGTERM has done its last.                            *)
StackFits ==
    /\ hpc # "out" => HasChld \/ stack = <<>>
    /\ tpc > 0 => HasTerm \/ stack = <<>>
    /\ tpc = 4 => stack = <<>>

(* The startup is at a slot there is, and fills the slots in their order;  *)
(* g_nForkIdx does not run ahead of it.                                    *)
SlotsFit ==
    /\ gidx <= mslot
    /\ Daemon = "fw" => gidx <= SERVICE
    /\ mpc # "loop" => mslot \in Slots
    /\ \A s \in Slots : Pid[s] # None => s < mslot
    /\ mpc = "store" => newPid["main"] # None
    /\ hpc \in {"scan", "store"} => hpid # None
    /\ hpc = "store" => newPid["chld"] # None /\ hslot < mslot

ForkBasics == TypeOK /\ StackFits /\ SlotsFit

(* dap_frd tells its children when the flag is set and not before.         *)
FlagFirst ==
    /\ told # {} => exitFlag
    /\ exitFlag <=> tpc > 0

(* Children die when all are forked or have been told to; so the handler   *)
(* forks when all are forked, for a child that is gone.                    *)
DeathsFit ==
    /\ mpc # "loop" /\ ~exitFlag => \A c \in Children : children[c].st = "alive"
    /\ hpc = "store" => mpc = "loop" /\ Pid[hslot] = hpid
    /\ hpc \in {"scan", "store"} => children[hpid].st = "gone"

(* A child lives in the slot of its role, or is about to be put there.     *)
RolesFit ==
    /\ mpc \in {"fork", "store"} => gidx = mslot
    /\ mpc = "store" => children[newPid["main"]].role = mslot
    /\ hpc = "store" => children[newPid["chld"]].role = hslot
    /\ \A s \in Slots : Pid[s] # None => children[Pid[s]].role = s
    /\ \A c \in Children : children[c].st = "alive" =>
          \/ Pid[children[c].role] = c
          \/ mpc = "store" /\ c = newPid["main"]
          \/ hpc = "store" /\ c = newPid["chld"]

FrdInv ==
    /\ ForkBasics /\ FlagFirst /\ DeathsFit
    /\ missing = {} => RolesFit

------------------------------------------------------------------------------
(* A short sequence is the tuple of its elements.                          *)
Parts == {"main", "chld", "term"}

LEMMA TuplesAreSeqs ==
    ASSUME NEW a \in Parts, NEW b \in Parts, NEW c \in Parts
    PROVE  /\ <<a>> \in Seq(Parts) /\ Len(<<a>>) = 1 /\ <<a>>[1] = a
           /\ <<a, b>> \in Seq(Parts) /\ Len(<<a, b>>) = 2
           /\ <<a, b>>[1] = a /\ <<a, b>>[2] = b
           /\ <<a, b, c>> \in Seq(Parts) /\ Len(<<a, b, c>>) = 3
           /\ <<a, b, c>>[1] = a /\ <<a, b, c>>[2] = b /\ <<a, b, c>>[3] = c
    OBVIOUS

LEMMA OneIs ==
    ASSUME NEW t \in Seq(Parts), Len(t) = 1, NEW a \in Parts, t[1] = a
    PROVE  t = <<a>>
<1> DEFINE s == <<a>>
<1>1. s \in Seq(Parts) /\ Len(s) = 1 /\ s[1] = a
    BY TuplesAreSeqs
<1> HIDE DEF s
<1>2. \A k \in 1..1 : t[k] = s[k]
    BY <1>1
<1>3. t = s
    BY <1>1, <1>2, SeqEqual
<1> QED
    BY <1>3 DEF s

LEMMA TwoAre ==
    ASSUME NEW t \in Seq(Parts), Len(t) = 2, NEW a \in Parts, NEW b \in Parts,
           t[1] = a, t[2] = b
    PROVE  t = <<a, b>>
<1> DEFINE s == <<a, b>>
<1>1. s \in Seq(Parts) /\ Len(s) = 2 /\ s[1] = a /\ s[2] = b
    BY TuplesAreSeqs
<1> HIDE DEF s
<1>2. \A k \in 1..2 : t[k] = s[k]
    BY <1>1
<1>3. t = s
    BY <1>1, <1>2, SeqEqual
<1> QED
    BY <1>3 DEF s

LEMMA ThreeAre ==
    ASSUME NEW t \in Seq(Parts), Len(t) = 3,
           NEW a \in Parts, NEW b \in Parts, NEW c \in Parts,
           t[1] = a, t[2] = b, t[3] = c
    PROVE  t = <<a, b, c>>
<1> DEFINE s == <<a, b, c>>
<1>1. s \in Seq(Parts) /\ Len(s) = 3 /\ s[1] = a /\ s[2] = b /\ s[3] = c
    BY TuplesAreSeqs
<1> HIDE DEF s
<1>2. \A k \in 1..3 : t[k] = s[k]
    BY <1>1
<1>3. t = s
    BY <1>1, <1>2, SeqEqual
<1> QED
    BY <1>3 DEF s

LEMMA PushOnOne ==
    ASSUME NEW a \in Parts, NEW b \in Parts
    PROVE  Append(<<a>>, b) = <<a, b>>
<1> DEFINE t == Append(<<a>>, b)
<1>1. t \in Seq(Parts) /\ Len(t) = 2 /\ t[1] = a /\ t[2] = b
    BY TuplesAreSeqs, AppendProperties
<1> HIDE DEF t
<1>2. t = <<a, b>>
    BY <1>1, TwoAre
<1> QED
    BY <1>2 DEF t

LEMMA PushOnTwo ==
    ASSUME NEW a \in Parts, NEW b \in Parts, NEW c \in Parts
    PROVE  Append(<<a, b>>, c) = <<a, b, c>>
<1> DEFINE s == <<a, b>>
           t == Append(s, c)
<1>1. s \in Seq(Parts) /\ Len(s) = 2 /\ s[1] = a /\ s[2] = b
    BY TuplesAreSeqs
<1> HIDE DEF s
<1>2. t \in Seq(Parts) /\ Len(t) = 3 /\ t[1] = a /\ t[2] = b /\ t[3] = c
    BY <1>1, AppendProperties
<1> HIDE DEF t
<1>3. t = <<a, b, c>>
    BY <1>2, ThreeAre
<1> QED
    BY <1>3 DEF s, t

LEMMA PopOfTwo ==
    ASSUME NEW a \in Parts, NEW b \in Parts
    PROVE  SubSeq(<<a, b>>, 1, Len(<<a, b>>) - 1) = <<a>>
<1> DEFINE s == <<a, b>>
           t == SubSeq(s, 1, 1)
<1>1. s \in Seq(Parts) /\ Len(s) = 2 /\ s[1] = a /\ s[2] = b
    BY TuplesAreSeqs
<1> HIDE DEF s
<1>2. t \in Seq(Parts) /\ Len(t) = 1 /\ t[1] = a
    BY <1>1, SubSeqProperties
<1> HIDE DEF t
<1>3. t = <<a>>
    BY <1>2, OneIs
<1> QED
    BY <1>1, <1>3 DEF s, t

LEMMA PopOfThree ==
    ASSUME NEW a \in Parts, NEW b \in Parts, NEW c \in Parts
    PROVE  SubSeq(<<a, b, c>>, 1, Len(<<a, b, c>>) - 1) = <<a, b>>
<1> DEFINE s == <<a, b, c>>
           t == SubSeq(s, 1, 2)
<1>1. s \in Seq(Parts) /\ Len(s) = 3 /\ s[1] = a /\ s[2] = b /\ s[3] = c
    BY TuplesAreSeqs
<1> HIDE DEF s
<1>2. t \in Seq(Parts) /\ Len(t) = 2 /\ t[1] = a /\ t[2] = b
    BY <1>1, SubSeqProperties
<1> HIDE DEF t
<1>3. t = <<a, b>>
    BY <1>2, TwoAre
<1> QED
    BY <1>1, <1>3 DEF s, t

------------------------------------------------------------------------------
(* What is on the stack when a part of the parent runs, when a handler is  *)
(* called and when it returns.                                             *)
Stacks == {<<>>, <<"main">>, <<"main", "chld">>, <<"main", "term">>,
           <<"main", "chld", "term">>, <<"main", "term", "chld">>}

Has(part) == \E k \in 1..Len(stack) : stack[k] = part

LEMMA OnStack ==
    ASSUME stack \in Stacks
    PROVE  /\ Runs("main") => stack = <<"main">>
           /\ Runs("chld") => stack \in {<<"main", "chld">>, <<"main", "term", "chld">>}
           /\ Runs("term") => stack \in {<<"main", "term">>, <<"main", "chld", "term">>}
           /\ HasChld <=> Has("chld")
           /\ HasTerm <=> Has("term")
<1>1. CASE stack = <<>>
    BY <1>1 DEF Runs, Has, HasChld, HasTerm
<1>2. CASE stack = <<"main">>
  <2>1. Len(stack) = 1 /\ stack[1] = "main"
      BY <1>2
  <2> QED
      BY <1>2, <2>1 DEF Runs, Has, HasChld, HasTerm
<1>3. CASE stack \in {<<"main", "chld">>, <<"main", "term">>}
  <2>1. Len(stack) = 2 /\ stack[1] = "main"
      BY <1>3
  <2>2. CASE stack = <<"main", "chld">>
    <3>1. stack[2] = "chld"
        BY <2>2
    <3> QED
        BY <2>1, <2>2, <3>1 DEF Runs, Has, HasChld, HasTerm
  <2>3. CASE stack = <<"main", "term">>
    <3>1. stack[2] = "term"
        BY <2>3
    <3> QED
        BY <2>1, <2>3, <3>1 DEF Runs, Has, HasChld, HasTerm
  <2> QED
      BY <1>3, <2>2, <2>3
<1>4. CASE stack \in {<<"main", "chld", "term">>, <<"main", "term", "chld">>}
  <2>1. Len(stack) = 3 /\ stack[1] = "main"
      BY <1>4
  <2>2. CASE stack = <<"main", "chld", "term">>
    <3>1. stack[2] = "chld" /\ stack[3] = "term"
        BY <2>2
    <3> QED
        BY <2>1, <2>2, <3>1 DEF Runs, Has, HasChld, HasTerm
  <2>3. CASE stack = <<"main", "term", "chld">>
    <3>1. stack[2] = "term" /\ stack[3] = "chld"
        BY <2>3
    <3> QED
        BY <2>1, <2>3, <3>1 DEF Runs, Has, HasChld, HasTerm
  <2> QED
      BY <1>4, <2>2, <2>3
<1> QED
    BY <1>1, <1>2, <1>3, <1>4 DEF Stacks

LEMMA ChldCalled ==
    ASSUME stack \in Stacks, HandlerIsCalled
    PROVE  /\ stack' \in Stacks
           /\ HasTerm' <=> HasTerm
           /\ ~HasChld /\ HasChld' /\ stack # <<>>
<1>1. stack \in {<<"main">>, <<"main", "term">>} /\ stack' = Append(stack, "chld")
    BY OnStack DEF HandlerIsCalled, Stacks, HasChld, Has
<1>2. CASE stack = <<"main">>
  <2>1. stack' = <<"main", "chld">>
      BY <1>1, <1>2, PushOnOne DEF Parts
  <2> QED
      BY <1>2, <2>1 DEF Stacks, HasChld, HasTerm
<1>3. CASE stack = <<"main", "term">>
  <2>1. stack' = <<"main", "term", "chld">>
      BY <1>1, <1>3, PushOnTwo DEF Parts
  <2> QED
      BY <1>3, <2>1 DEF Stacks, HasChld, HasTerm
<1> QED
    BY <1>1, <1>2, <1>3

LEMMA ChldReturns ==
    ASSUME stack \in Stacks, HandlerReturns
    PROVE  /\ stack' \in Stacks
           /\ HasTerm' <=> HasTerm
           /\ stack # <<>>
<1>1. stack \in {<<"main", "chld">>, <<"main", "term", "chld">>}
      /\ stack' = SubSeq(stack, 1, Len(stack) - 1)
    BY OnStack DEF HandlerReturns
<1>2. CASE stack = <<"main", "chld">>
  <2>1. stack' = <<"main">>
      BY <1>1, <1>2, PopOfTwo DEF Parts
  <2> QED
      BY <1>2, <2>1 DEF Stacks, HasTerm
<1>3. CASE stack = <<"main", "term", "chld">>
  <2>1. stack' = <<"main", "term">>
      BY <1>1, <1>3, PopOfThree DEF Parts
  <2> QED
      BY <1>3, <2>1 DEF Stacks, HasTerm
<1> QED
    BY <1>1, <1>2, <1>3

LEMMA TermCalled ==
    ASSUME stack \in Stacks, Terminate
    PROVE  /\ stack' \in Stacks
           /\ HasChld' <=> HasChld
           /\ HasTerm' /\ ~HasTerm /\ stack # <<>>
<1>1. stack \in {<<"main">>, <<"main", "chld">>} /\ stack' = Append(stack, "term")
    BY OnStack DEF Terminate, Stacks, HasTerm, Has
<1>2. CASE stack = <<"main">>
  <2>1. stack' = <<"main", "term">>
      BY <1>1, <1>2, PushOnOne DEF Parts
  <2> QED
      BY <1>2, <2>1 DEF Stacks, HasChld, HasTerm
<1>3. CASE stack = <<"main", "chld">>
  <2>1. stack' = <<"main", "chld", "term">>
      BY <1>1, <1>3, PushOnTwo DEF Parts
  <2> QED
      BY <1>3, <2>1 DEF Stacks, HasChld, HasTerm
<1> QED
    BY <1>1, <1>2, <1>3

(* fork() adds a child that lives, after all the others.                   *)
ChildRecords == [st : {"alive", "zombie", "gone"}, role : Slots]

LEMMA ForkAdds ==
    ASSUME children \in Seq(ChildRecords), NEW r \in Slots,
           NEW by \in {"main", "chld"},
           newPid \in [{"main", "chld"} -> Children \cup {None}], Fork(r, by)
    PROVE  /\ children' \in Seq(ChildRecords)
           /\ Len(children') = Len(children) + 1
           /\ Len(children) + 1 \in Children'
           /\ Children' = Children \cup {Len(children) + 1}
           /\ Len(children) + 1 \notin Children /\ Len(children) + 1 # None
           /\ \A c \in Children : children'[c] = children[c]
           /\ children'[Len(children) + 1] = [st |-> "alive", role |-> r]
           /\ newPid' \in [{"main", "chld"} -> Children' \cup {None}]
           /\ newPid'[by] = Len(children) + 1
           /\ \A p \in {"main", "chld"} : p # by => newPid'[p] = newPid[p]
<1>1. [st |-> "alive", role |-> r] \in ChildRecords
    BY DEF ChildRecords
<1>2. /\ children' = Append(children, [st |-> "alive", role |-> r])
      /\ newPid' = [newPid EXCEPT ![by] = Len(children) + 1]
    BY DEF Fork
<1>3. /\ children' \in Seq(ChildRecords)
      /\ Len(children') = Len(children) + 1
      /\ \A c \in 1..Len(children) : children'[c] = children[c]
      /\ children'[Len(children) + 1] = [st |-> "alive", role |-> r]
    BY <1>1, <1>2
<1>4. Len(children) \in Nat /\ Len(children') = Len(children) + 1
    BY <1>3
<1>5. /\ Children' = Children \cup {Len(children) + 1}
      /\ Len(children) + 1 \notin Children /\ Len(children) + 1 # None
    BY <1>4 DEF Children, None
<1>6. /\ newPid' \in [{"main", "chld"} -> Children' \cup {None}]
      /\ newPid'[by] = Len(children) + 1
      /\ \A p \in {"main", "chld"} : p # by => newPid'[p] = newPid[p]
    BY <1>2, <1>5
<1> QED
    BY <1>3, <1>5, <1>6 DEF Children

(* A child that ends, or is reaped, changes its state and nothing else.    *)
LEMMA StateChanges ==
    ASSUME children \in Seq(ChildRecords), NEW c \in Children,
           NEW x \in {"zombie", "gone"},
           children' = [children EXCEPT ![c].st = x]
    PROVE  /\ children' \in Seq(ChildRecords)
           /\ Len(children') = Len(children) /\ Children' = Children
           /\ \A d \in Children : children'[d].role = children[d].role
           /\ \A d \in Children : d # c => children'[d] = children[d]
           /\ children'[c].st = x
<1> DEFINE r == [children[c] EXCEPT !.st = x]
<1>1. c \in 1..Len(children) /\ children[c] \in ChildRecords
    BY DEF Children
<1>2. r \in ChildRecords /\ r.st = x /\ r.role = children[c].role
    BY <1>1 DEF ChildRecords
<1>3. children' = [children EXCEPT ![c] = r]
    OBVIOUS
<1> HIDE DEF r
<1>4. /\ children' \in Seq(ChildRecords) /\ Len(children') = Len(children)
      /\ \A d \in 1..Len(children) : children'[d] = IF d = c THEN r ELSE children[d]
  <2>1. r \in ChildRecords
      BY <1>2
  <2>2. /\ [children EXCEPT ![c] = r] \in Seq(ChildRecords)
        /\ Len([children EXCEPT ![c] = r]) = Len(children)
        /\ \A d \in 1..Len(children) :
               [children EXCEPT ![c] = r][d] = IF d = c THEN r ELSE children[d]
      BY <1>1, <2>1, ExceptSeq
  <2> QED BY <1>3, <2>2
<1> QED
    BY <1>1, <1>2, <1>4 DEF Children

(* No child, and no part of the stack, changes where none does.            *)
LEMMA SameStack ==
    ASSUME stack' = stack
    PROVE  (HasChld' <=> HasChld) /\ (HasTerm' <=> HasTerm)
BY DEF HasChld, HasTerm

LEMMA SameChildren ==
    ASSUME children' = children
    PROVE  Children' = Children
BY DEF Children

------------------------------------------------------------------------------
LEMMA BasicsInit == Init => ForkBasics
<1> SUFFICES ASSUME Init PROVE ForkBasics
    OBVIOUS
<1>1. /\ stack = <<"main">> /\ gidx = 0 /\ children = <<>> /\ told = {}
      /\ Pid = [s \in Slots |-> None] /\ pending = FALSE /\ exitFlag = FALSE
      /\ mpc = "role" /\ mslot = 0 /\ hpc = "out" /\ hpid = None /\ hslot = 0
      /\ newPid = [p \in {"main", "chld"} |-> None]
      /\ missing = {} /\ lost = {} /\ tpc = 0
    BY DEF Init, POLICY
<1>2. 0 \in Slots
    BY ForkAssumption DEF Slots
<1>3. TypeOK
  <2>1. children \in Seq([st : {"alive", "zombie", "gone"}, role : Slots])
      BY <1>1
  <2>2. NDetect \in Nat
      BY ForkAssumption
  <2>3. Pid \in [Slots -> Nat] /\ \A s \in Slots : Pid[s] \in Children \cup {None}
      BY <1>1 DEF None
  <2>4. newPid \in [{"main", "chld"} -> Children \cup {None}]
      BY <1>1
  <2>5. stack \in Stacks
      BY <1>1 DEF Stacks
  <2> QED
      BY <1>1, <1>2, <2>1, <2>2, <2>3, <2>4, <2>5 DEF TypeOK, Stacks
<1> QED
    BY <1>1, <1>2, <1>3, ForkAssumption
       DEF ForkBasics, StackFits, SlotsFit, SERVICE

(* The startup.                                                            *)
LEMMA BasicsStart == ForkBasics /\ Start => ForkBasics'
<1> SUFFICES ASSUME ForkBasics, Start PROVE ForkBasics'
    OBVIOUS
<1>0. /\ stack = <<"main">> /\ stack # <<>> /\ ~HasTerm /\ ~HasChld
      /\ NDetect \in Nat /\ (Daemon = "fw" => NDetect = 0)
  <2>1. stack = <<"main">>
      BY OnStack DEF ForkBasics, TypeOK, Stacks, Start, StartRole, StartFork,
                     StartForkFails, StartStore
  <2> QED
      BY <2>1, ForkAssumption DEF HasTerm, HasChld
<1> USE DEF ForkBasics, TypeOK, StackFits, SlotsFit, handlerVars, failures, Slots,
            POLICY, SERVICE, DETECT, None
<1>1. CASE StartRole
    BY <1>0, <1>1, SameStack, SameChildren DEF StartRole
<1>2. CASE StartFork
  <2>1. gidx \in Slots
      BY <1>0, <1>2 DEF StartFork
  <2>2. /\ Fork(gidx, "main")
        /\ stack' = stack /\ gidx' = gidx /\ Pid' = Pid /\ told' = told
        /\ pending' = pending /\ exitFlag' = exitFlag /\ mpc' = "store"
        /\ mslot' = mslot /\ hpc' = hpc /\ hpid' = hpid /\ hslot' = hslot
        /\ missing' = missing /\ lost' = lost /\ tpc' = tpc /\ mpc = "fork"
      BY <1>2 DEF StartFork
  <2>3. /\ children' \in Seq(ChildRecords)
        /\ Children' = Children \cup {Len(children) + 1}
        /\ newPid' \in [{"main", "chld"} -> Children' \cup {None}]
        /\ newPid'["main"] # None /\ newPid'["chld"] = newPid["chld"]
      BY <2>1, <2>2, ForkAdds DEF ChildRecords
  <2>4. TypeOK'
      BY <2>2, <2>3 DEF ChildRecords
  <2> QED
      BY <1>0, <2>2, <2>3, <2>4, SameStack
<1>3. CASE StartForkFails
  <2>1. CASE mslot < DETECT
      BY <1>0, <1>3, <2>1, SameChildren DEF StartForkFails, startVars
  <2>2. CASE ~(mslot < DETECT)
      BY <1>0, <1>3, <2>2, SameStack, SameChildren DEF StartForkFails
  <2> QED
      BY <2>1, <2>2
<1>4. CASE StartStore
  <2>1. newPid["main"] \in Nat
      BY DEF Children
  <2>2. mslot \in Slots /\ mslot' = mslot + 1
      BY <1>4 DEF StartStore
  <2>3. /\ Pid' \in [Slots -> Nat]
        /\ \A s \in Slots : Pid'[s] = IF s = mslot THEN newPid["main"] ELSE Pid[s]
      BY <1>4, <2>1, <2>2 DEF StartStore
  <2>4. \A s \in Slots : Pid'[s] \in Children \cup {None} /\ (Pid'[s] # None => s < mslot')
      BY <1>0, <2>2, <2>3
  <2>5. /\ mslot' \in 0..(NDetect + 2) /\ mpc' \in {"loop", "fork", "role"}
        /\ mpc' # "loop" => mslot' \in Slots
        /\ gidx' \in 0..(NDetect + 2) /\ gidx' <= mslot'
        /\ Daemon = "fw" => gidx' <= SERVICE
        /\ hpc = "store" => hslot < mslot'
      BY <1>0, <1>4, <2>2 DEF StartStore
  <2>6. /\ stack' = stack /\ children' = children /\ told' = told
        /\ pending' = pending /\ exitFlag' = exitFlag /\ hpc' = hpc /\ hslot' = hslot
        /\ hpid' = hpid /\ newPid' = newPid /\ missing' = missing /\ lost' = lost
        /\ tpc' = tpc
      BY <1>4 DEF StartStore
  <2>7. TypeOK'
      BY <2>3, <2>4, <2>5, <2>6, SameChildren
  <2> QED
      BY <1>0, <2>4, <2>5, <2>6, <2>7, SameStack
<1> QED
    BY <1>1, <1>2, <1>3, <1>4 DEF Start

(* The handler of SIGCHLD.                                                 *)
LEMMA BasicsHandler == ForkBasics /\ Handler => ForkBasics'
<1> SUFFICES ASSUME ForkBasics, Handler PROVE ForkBasics'
    OBVIOUS
<1>0. /\ stack \in Stacks /\ children \in Seq(ChildRecords)
      /\ NDetect \in Nat /\ (Daemon = "fw" => NDetect = 0)
      /\ Daemon \in {"fw", "frd"}
      /\ Runs("chld") => HasChld
    BY OnStack, ForkAssumption DEF ForkBasics, TypeOK, Stacks, ChildRecords, HasChld
<1> USE DEF ForkBasics, TypeOK, StackFits, SlotsFit, startVars, failures, Slots,
            POLICY, SERVICE, DETECT, None
<1>1. CASE HandlerIsCalled
    BY <1>0, <1>1, ChldCalled, SameChildren DEF HandlerIsCalled, Stacks
<1>2. CASE Reap
  <2>1. PICK c \in Children : /\ children' = [children EXCEPT ![c].st = "gone"]
                              /\ hpid' = c
      BY <1>2 DEF Reap
  <2>2. children' \in Seq(ChildRecords) /\ Children' = Children
      BY <1>0, <2>1, StateChanges
  <2>3. c # None
      BY DEF Children
  <2>4. /\ stack' = stack /\ gidx' = gidx /\ Pid' = Pid /\ told' = told
        /\ pending' = pending /\ exitFlag' = exitFlag /\ mpc' = mpc /\ mslot' = mslot
        /\ hslot' = 0 /\ hpc' = "scan" /\ newPid' = newPid /\ missing' = missing
        /\ lost' = lost /\ tpc' = tpc /\ hpc = "reap"
      BY <1>2 DEF Reap
  <2>5. hpid' \in Children' /\ hpid' # None /\ 0 \in Slots
      BY <1>0, <2>1, <2>2, <2>3
  <2>6. TypeOK'
      BY <2>2, <2>4, <2>5 DEF ChildRecords
  <2> QED
      BY <1>0, <2>4, <2>5, <2>6, SameStack
<1>3. CASE HandlerReturns
    BY <1>0, <1>3, ChldReturns, SameChildren DEF HandlerReturns, Stacks
<1>4. CASE SkipSlot
    BY <1>0, <1>4, SameStack, SameChildren DEF SkipSlot
<1>5. CASE ForkAgain
  <2>1. /\ Fork(gidx', "chld") /\ gidx' = IF Daemon = "frd" THEN hslot ELSE gidx
        /\ stack' = stack /\ Pid' = Pid /\ told' = told
        /\ pending' = pending /\ exitFlag' = exitFlag /\ mpc' = mpc
        /\ mslot' = mslot /\ hpc' = "store" /\ hpid' = hpid /\ hslot' = hslot
        /\ missing' = missing /\ lost' = lost /\ tpc' = tpc /\ hpc = "scan"
        /\ Pid[hslot] = hpid /\ Runs("chld")
      BY <1>5 DEF ForkAgain
  <2>2. gidx' \in Slots /\ gidx' <= mslot /\ (Daemon = "fw" => gidx' <= SERVICE)
      BY <1>0, <2>1
  <2>3. /\ children' \in Seq(ChildRecords)
        /\ Children' = Children \cup {Len(children) + 1}
        /\ newPid' \in [{"main", "chld"} -> Children' \cup {None}]
        /\ newPid'["chld"] # None /\ newPid'["main"] = newPid["main"]
      BY <1>0, <2>1, <2>2, ForkAdds
  <2>4. TypeOK'
      BY <1>0, <2>1, <2>2, <2>3 DEF ChildRecords
  <2> QED
      BY <1>0, <2>1, <2>2, <2>3, <2>4, SameStack
<1>6. CASE ForkAgainFails
    BY <1>0, <1>6, SameStack, SameChildren DEF ForkAgainFails
<1>7. CASE StoreAgain
  <2>1. hslot < mslot
      BY <1>0, <1>7 DEF StoreAgain
  <2>2. newPid["chld"] \in Nat
      BY DEF Children
  <2>3. /\ Pid' \in [Slots -> Nat]
        /\ \A s \in Slots : Pid'[s] = IF s = hslot THEN newPid["chld"] ELSE Pid[s]
      BY <1>7, <2>2 DEF StoreAgain
  <2>4. \A s \in Slots : Pid'[s] \in Children \cup {None} /\ (Pid'[s] # None => s < mslot)
      BY <2>1, <2>3
  <2>5. hslot' \in Slots /\ hpc' \in {"scan", "reap"} /\ hpid # None /\ hpc = "store"
      BY <1>0, <1>7 DEF StoreAgain
  <2>6. /\ stack' = stack /\ gidx' = gidx /\ children' = children /\ told' = told
        /\ pending' = pending /\ exitFlag' = exitFlag /\ mpc' = mpc /\ mslot' = mslot
        /\ hpid' = hpid /\ newPid' = newPid /\ missing' = missing /\ lost' = lost
        /\ tpc' = tpc
      BY <1>7 DEF StoreAgain
  <2>7. TypeOK'
      BY <2>3, <2>4, <2>5, <2>6, SameChildren
  <2> QED
      BY <1>0, <2>4, <2>5, <2>6, <2>7, SameStack
<1> QED
    BY <1>1, <1>2, <1>3, <1>4, <1>5, <1>6, <1>7 DEF Handler
(* The handler of SIGTERM.                                                 *)
LEMMA OrderIs ==
    /\ Daemon = "fw" => /\ Order[1] = "kill" /\ Order[2] = "flag"
                        /\ Order[3] = "wait" /\ Order[4] = "exit"
    /\ Daemon = "frd" => /\ Order[1] = "flag" /\ Order[2] = "kill"
                         /\ Order[3] = "wait" /\ Order[4] = "exit"
BY DEF Order

LEMMA StepOf ==
    ASSUME ForkBasics, NEW step \in {"kill", "flag", "wait", "exit"}, Stopping(step)
    PROVE  /\ stack # <<>> /\ HasTerm /\ ~Runs("main")
           /\ tpc \in 0..3 /\ tpc' = tpc + 1
           /\ step = "exit" <=> tpc = 3
           /\ Daemon = "frd" => /\ step = "flag" <=> tpc = 0
                                /\ step = "kill" <=> tpc = 1
<1>1. stack \in Stacks
    BY DEF ForkBasics, TypeOK, Stacks
<1>2. stack \in {<<"main", "term">>, <<"main", "chld", "term">>}
    BY <1>1, OnStack DEF Stopping
<1>3. stack # <<>> /\ HasTerm /\ stack # <<"main">>
    BY <1>2 DEF HasTerm
<1>4. tpc \in 0..3 /\ tpc' = tpc + 1 /\ Order[tpc + 1] = step
    BY <1>3 DEF ForkBasics, TypeOK, StackFits, Stopping
<1>5. Daemon \in {"fw", "frd"}
    BY ForkAssumption
<1>6. step = "exit" <=> tpc = 3
    BY <1>4, <1>5, OrderIs
<1>7. Daemon = "frd" => (step = "flag" <=> tpc = 0) /\ (step = "kill" <=> tpc = 1)
    BY <1>4, OrderIs
<1>8. ~Runs("main")
    BY <1>1, <1>3, OnStack
<1> QED
    BY <1>3, <1>4, <1>6, <1>7, <1>8

LEMMA BasicsStop == ForkBasics /\ (Terminate \/ Stop) => ForkBasics'
<1> SUFFICES ASSUME ForkBasics, Terminate \/ Stop PROVE ForkBasics'
    OBVIOUS
<1>0. stack \in Stacks /\ children \in Seq(ChildRecords)
    BY DEF ForkBasics, TypeOK, Stacks, ChildRecords
<1> USE DEF ForkBasics, TypeOK, StackFits, SlotsFit, startVars, handlerVars, failures
<1>1. CASE Terminate
    BY <1>0, <1>1, TermCalled, SameChildren DEF Terminate, Stacks
<1>2. CASE TellChildren
  <2>1. tpc' \in 0..3 /\ HasTerm /\ told' \subseteq Children
      BY <1>2, StepOf DEF TellChildren
  <2> QED
      BY <1>2, <2>1, SameStack, SameChildren DEF TellChildren
<1>3. CASE SetExitFlag
  <2>1. tpc' \in 0..3 /\ HasTerm
      BY <1>3, StepOf DEF SetExitFlag
  <2> QED
      BY <1>3, <2>1, SameStack, SameChildren DEF SetExitFlag
<1>4. CASE WaitForOne
  <2>1. tpc' \in 0..3 /\ HasTerm
      BY <1>4, StepOf DEF WaitForOne
  <2>2. children' \in Seq(ChildRecords) /\ Children' = Children
      BY <1>0, <1>4, StateChanges, SameChildren DEF WaitForOne
  <2>3. /\ stack' = stack /\ gidx' = gidx /\ Pid' = Pid /\ told' = told
        /\ pending' = pending /\ exitFlag' = exitFlag /\ mpc' = mpc /\ mslot' = mslot
        /\ hpc' = hpc /\ hpid' = hpid /\ hslot' = hslot /\ newPid' = newPid
        /\ missing' = missing /\ lost' = lost
      BY <1>4 DEF WaitForOne
  <2>4. TypeOK'
      BY <2>1, <2>2, <2>3 DEF ChildRecords
  <2> QED
      BY <2>1, <2>3, <2>4, SameStack
<1>5. CASE ParentExit
  <2>1. tpc' = 4
      BY <1>5, StepOf DEF ParentExit
  <2> QED
      BY <1>5, <2>1, SameChildren DEF ParentExit
<1> QED
    BY <1>1, <1>2, <1>3, <1>4, <1>5 DEF Stop

LEMMA BasicsEnds == ForkBasics /\ (\E c \in Children : ChildEnds(c)) => ForkBasics'
<1> SUFFICES ASSUME ForkBasics, NEW c \in Children, ChildEnds(c) PROVE ForkBasics'
    OBVIOUS
<1> USE DEF ForkBasics, TypeOK, StackFits, SlotsFit, startVars, handlerVars, failures
<1>1. children' \in Seq(ChildRecords) /\ Children' = Children
    BY StateChanges DEF ChildEnds, ChildRecords
<1>2. /\ stack' = stack /\ gidx' = gidx /\ Pid' = Pid /\ told' = told
      /\ pending' \in BOOLEAN /\ exitFlag' = exitFlag /\ mpc' = mpc /\ mslot' = mslot
      /\ hpc' = hpc /\ hpid' = hpid /\ hslot' = hslot /\ newPid' = newPid
      /\ missing' = missing /\ lost' = lost /\ tpc' = tpc
    BY DEF ChildEnds
<1>3. TypeOK'
    BY <1>1, <1>2 DEF ChildRecords
<1> QED
    BY <1>2, <1>3, SameStack

LEMMA BasicsStep == ForkBasics /\ [Next]_vars => ForkBasics'
<1> SUFFICES ASSUME ForkBasics, UNCHANGED vars PROVE ForkBasics'
    BY BasicsStart, BasicsHandler, BasicsStop, BasicsEnds DEF Next
<1> QED
    BY SameStack, SameChildren
       DEF vars, startVars, handlerVars, failures,
           ForkBasics, TypeOK, StackFits, SlotsFit

(* The values of the variables, for both daemons, any number of forks for  *)
(* detect data and children that die at any time.                          *)
THEOREM ForkTypeCorrect == Spec => []TypeOK
<1>1. ForkBasics => TypeOK
    BY DEF ForkBasics
<1> QED
    BY BasicsInit, BasicsStep, <1>1, PTL DEF Spec
------------------------------------------------------------------------------
(* dap_frd sets the flag before it tells its children.                     *)
LEMMA FlagStep ==
    ASSUME Daemon = "frd", ForkBasics, FlagFirst, [Next]_vars
    PROVE  FlagFirst'
<1> USE DEF FlagFirst
<1>1. CASE Start
    BY <1>1 DEF Start, StartRole, StartFork, StartForkFails, StartStore
<1>2. CASE Handler
    BY <1>2 DEF Handler, HandlerIsCalled, Reap, HandlerReturns, SkipSlot,
                ForkAgain, ForkAgainFails, StoreAgain
<1>3. CASE Terminate
    BY <1>3 DEF Terminate
<1>4. CASE TellChildren
  <2>1. exitFlag /\ tpc' > 0
      BY <1>4, StepOf DEF TellChildren
  <2> QED
      BY <1>4, <2>1 DEF TellChildren
<1>5. CASE SetExitFlag
  <2>1. tpc' > 0
      BY <1>5, StepOf DEF SetExitFlag
  <2> QED
      BY <1>5, <2>1 DEF SetExitFlag
<1>6. CASE WaitForOne
  <2>1. exitFlag /\ tpc' > 0
      BY <1>6, StepOf DEF WaitForOne
  <2> QED
      BY <1>6, <2>1 DEF WaitForOne
<1>7. CASE ParentExit
  <2>1. exitFlag /\ tpc' > 0
      BY <1>7, StepOf DEF ParentExit
  <2> QED
      BY <1>7, <2>1 DEF ParentExit
<1>8. CASE \E c \in Children : ChildEnds(c)
    BY <1>8 DEF ChildEnds
<1>9. CASE UNCHANGED vars
    BY <1>9 DEF vars
<1> QED
    BY <1>1, <1>2, <1>3, <1>4, <1>5, <1>6, <1>7, <1>8, <1>9 DEF Next, Stop

LEMMA RolesAreSlots ==
    ASSUME ForkBasics, NEW c \in Children
    PROVE  children[c].role \in Slots /\ c # None
<1>1. children \in Seq(ChildRecords) /\ c \in 1..Len(children)
    BY DEF ForkBasics, TypeOK, ChildRecords, Children
<1>2. children[c] \in ChildRecords
    BY <1>1
<1> QED
    BY <1>1, <1>2 DEF ChildRecords, None

(* Roles stay right where nothing is forked or stored, and children at     *)
(* most end.                                                               *)
LEMMA RolesKept ==
    ASSUME ForkBasics, RolesFit, Children' = Children,
           \A d \in Children : children'[d].role = children[d].role,
           \A d \in Children : children'[d].st = "alive" => children[d].st = "alive",
           Pid' = Pid, newPid' = newPid,
           mpc' = "loop" \/ UNCHANGED <<gidx, mslot>>, mpc' = mpc,
           hpc' = "store" <=> hpc = "store", hpc = "store" => hslot' = hslot
    PROVE  RolesFit'
<1>1. \A s \in Slots : Pid[s] # None => Pid[s] \in Children
    BY DEF ForkBasics, TypeOK
<1>2. /\ mpc = "store" => newPid["main"] \in Children
      /\ hpc = "store" => newPid["chld"] \in Children
    BY DEF ForkBasics, TypeOK, SlotsFit
<1> QED
    BY <1>1, <1>2 DEF RolesFit

(* The startup: no handler has run, and every child lives.                 *)
LEMMA FrdStart ==
    ASSUME Daemon = "frd", FrdInv, Start
    PROVE  DeathsFit' /\ (missing' = {} => RolesFit')
<1>1. Runs("main") /\ mpc \in {"role", "fork", "store"}
    BY DEF Start, StartRole, StartFork, StartForkFails, StartStore
<1>2. stack = <<"main">>
    BY <1>1, OnStack DEF FrdInv, ForkBasics, TypeOK, Stacks
<1>3. hpc = "out" /\ hpc' = "out" /\ ~exitFlag /\ ~exitFlag'
  <2>1. ~HasChld /\ ~HasTerm /\ stack # <<>>
      BY <1>2 DEF HasChld, HasTerm
  <2>2. hpc = "out" /\ ~(tpc > 0)
      BY <2>1 DEF FrdInv, ForkBasics, StackFits
  <2> QED
      BY <2>2 DEF FrdInv, FlagFirst, Start, StartRole, StartFork,
                  StartForkFails, StartStore, handlerVars
<1>4. \A c \in Children : children[c].st = "alive"
    BY <1>1, <1>3 DEF FrdInv, DeathsFit
<1>5. mslot \in Slots /\ gidx <= mslot /\ gidx \in Nat
    BY <1>1 DEF FrdInv, ForkBasics, TypeOK, SlotsFit
<1>6. CASE StartRole
    BY <1>3, <1>4, <1>6, SameChildren
       DEF StartRole, FrdInv, DeathsFit, RolesFit, failures
<1>7. CASE StartFork
  <2>1. gidx \in Slots
      BY <1>5, ForkAssumption DEF Slots
  <2>2. /\ Fork(gidx, "main") /\ mpc = "fork" /\ mpc' = "store"
        /\ gidx' = gidx /\ mslot' = mslot /\ Pid' = Pid /\ missing' = missing
      BY <1>7 DEF StartFork, failures
  <2>3. /\ Children' = Children \cup {Len(children) + 1}
        /\ \A c \in Children : children'[c] = children[c]
        /\ children'[Len(children) + 1] = [st |-> "alive", role |-> gidx]
        /\ newPid'["main"] = Len(children) + 1
      BY <2>1, <2>2, ForkAdds DEF FrdInv, ForkBasics, TypeOK, ChildRecords
  <2>4. DeathsFit'
      BY <1>3, <1>4, <2>3 DEF DeathsFit
  <2>5. missing' = {} => RolesFit'
    <3>1. \A s \in Slots : Pid[s] # None => Pid[s] \in Children
        BY DEF FrdInv, ForkBasics, TypeOK
    <3> QED
        BY <1>3, <2>2, <2>3, <3>1 DEF FrdInv, RolesFit
  <2> QED
      BY <2>4, <2>5
<1>8. CASE StartForkFails
  <2>1. missing' # {} /\ children' = children
      BY <1>8 DEF StartForkFails
  <2> QED
      BY <1>3, <1>4, <2>1, SameChildren DEF DeathsFit
<1>9. CASE StartStore
  <2>1. newPid["main"] \in Children
      BY <1>9 DEF StartStore, FrdInv, ForkBasics, TypeOK, SlotsFit
  <2>2. \A s \in Slots : Pid'[s] = IF s = mslot THEN newPid["main"] ELSE Pid[s]
      BY <1>5, <1>9 DEF StartStore, FrdInv, ForkBasics, TypeOK
  <2>3. Pid[mslot] = None
      BY <1>5 DEF FrdInv, ForkBasics, SlotsFit, Slots
  <2>4. /\ mslot' = mslot + 1 /\ mpc = "store" /\ mpc' \in {"loop", "fork", "role"}
        /\ mpc' = "fork" => mslot >= DETECT
        /\ mslot >= DETECT => gidx' = gidx + 1
        /\ children' = children /\ newPid' = newPid /\ missing' = missing
      BY <1>5, <1>9 DEF StartStore, failures, Slots, DETECT
  <2>5. DeathsFit'
      BY <1>3, <1>4, <2>4, SameChildren DEF DeathsFit
  <2>6. ASSUME missing' = {} PROVE RolesFit'
    <3>1. RolesFit
        BY <2>4, <2>6 DEF FrdInv
    <3>2. \A c \in Children : children[c].role \in Slots /\ c # None
        BY RolesAreSlots DEF FrdInv
    <3> QED
        BY <1>3, <2>1, <2>2, <2>3, <2>4, <3>1, <3>2, SameChildren DEF RolesFit
  <2> QED
      BY <2>5, <2>6
<1> QED
    BY <1>6, <1>7, <1>8, <1>9 DEF Start

(* The handler of SIGCHLD forks when all have been forked.                 *)
LEMMA FrdHandler ==
    ASSUME Daemon = "frd", FrdInv, Handler
    PROVE  DeathsFit' /\ (missing' = {} => RolesFit')
<1> USE DEF FrdInv
<1>1. CASE HandlerIsCalled
  <2>1. hpc = "out"
    <3>1. ~HasChld /\ stack # <<>>
        BY <1>1, ChldCalled DEF ForkBasics, TypeOK, Stacks
    <3> QED
        BY <3>1 DEF ForkBasics, StackFits
  <2>2. DeathsFit'
      BY <1>1, SameChildren DEF HandlerIsCalled, DeathsFit, startVars
  <2> QED
      BY <1>1, <2>1, <2>2, SameChildren, RolesKept
         DEF HandlerIsCalled, startVars, failures
<1>2. CASE Reap
  <2>1. PICK c \in Children : /\ children[c].st = "zombie"
                              /\ children' = [children EXCEPT ![c].st = "gone"]
                              /\ hpid' = c
      BY <1>2 DEF Reap, Is
  <2>2. /\ Children' = Children /\ children'[c].st = "gone"
        /\ \A d \in Children : children'[d].role = children[d].role
        /\ \A d \in Children : d # c => children'[d] = children[d]
      BY <2>1, StateChanges DEF ForkBasics, TypeOK, ChildRecords
  <2>3. mpc = "loop" \/ exitFlag
      BY <2>1 DEF DeathsFit
  <2>4. DeathsFit'
      BY <1>2, <2>1, <2>2, <2>3 DEF Reap, DeathsFit, startVars
  <2> QED
      BY <1>2, <2>2, <2>4, RolesKept DEF Reap, startVars, failures
<1>3. CASE HandlerReturns
  <2>1. DeathsFit'
      BY <1>3, SameChildren DEF HandlerReturns, DeathsFit, startVars
  <2> QED
      BY <1>3, <2>1, SameChildren, RolesKept DEF HandlerReturns, startVars, failures
<1>4. CASE SkipSlot
  <2>1. DeathsFit'
      BY <1>4, SameChildren DEF SkipSlot, DeathsFit, startVars
  <2> QED
      BY <1>4, <2>1, SameChildren, RolesKept DEF SkipSlot, startVars, failures
<1>5. ASSUME hpc = "scan", ~exitFlag, Pid[hslot] = hpid
      PROVE  /\ mpc = "loop" /\ hpid \in Children /\ hpid # None
             /\ children[hpid].st = "gone"
  <2>1. hpid \in Children /\ hpid # None
      BY <1>5 DEF ForkBasics, TypeOK, SlotsFit
  <2> QED
      BY <1>5, <2>1 DEF DeathsFit
<1>6. CASE ForkAgain
  <2>1. /\ mpc = "loop" /\ hpid \in Children /\ children[hpid].st = "gone"
      BY <1>5, <1>6 DEF ForkAgain
  <2>2. /\ Fork(hslot, "chld") /\ hpc = "scan" /\ hpc' = "store" /\ mpc' = mpc
        /\ hslot' = hslot /\ hpid' = hpid /\ Pid' = Pid /\ Pid[hslot] = hpid
        /\ missing' = missing
      BY <1>6 DEF ForkAgain, startVars, failures
  <2>3. /\ Children' = Children \cup {Len(children) + 1}
        /\ \A c \in Children : children'[c] = children[c]
        /\ children'[Len(children) + 1] = [st |-> "alive", role |-> hslot]
        /\ newPid'["chld"] = Len(children) + 1
      BY <2>2, ForkAdds DEF ForkBasics, TypeOK, ChildRecords
  <2>4. DeathsFit'
      BY <2>1, <2>2, <2>3 DEF DeathsFit
  <2>5. missing' = {} => RolesFit'
    <3>1. \A s \in Slots : Pid[s] # None => Pid[s] \in Children
        BY DEF ForkBasics, TypeOK
    <3> QED
        BY <2>1, <2>2, <2>3, <3>1 DEF RolesFit
  <2> QED
      BY <2>4, <2>5
<1>7. CASE ForkAgainFails
  <2>1. /\ mpc = "loop" /\ hpc = "scan" /\ children[hpid].st = "gone"
      BY <1>5, <1>7 DEF ForkAgainFails
  <2>2. DeathsFit'
      BY <1>7, <2>1, SameChildren DEF ForkAgainFails, DeathsFit, startVars
  <2> QED
      BY <1>7, <2>1, <2>2, SameChildren, RolesKept DEF ForkAgainFails, startVars
<1>8. CASE StoreAgain
  <2>1. /\ mpc = "loop" /\ Pid[hslot] = hpid /\ children[hpid].st = "gone"
        /\ hpc = "store" /\ newPid["chld"] \in Children /\ hslot \in Slots
      BY <1>8 DEF StoreAgain, DeathsFit, ForkBasics, TypeOK, SlotsFit
  <2>2. \A s \in Slots : Pid'[s] = IF s = hslot THEN newPid["chld"] ELSE Pid[s]
      BY <1>8, <2>1 DEF StoreAgain, ForkBasics, TypeOK
  <2>3. /\ hpc' \in {"scan", "reap"} /\ hpid' = hpid /\ mpc' = mpc
        /\ children' = children /\ missing' = missing /\ newPid' = newPid
      BY <1>8 DEF StoreAgain, startVars, failures
  <2>4. DeathsFit'
      BY <2>1, <2>3, SameChildren DEF DeathsFit
  <2>5. ASSUME missing' = {} PROVE RolesFit'
    <3>1. RolesFit
        BY <2>3, <2>5
    <3>2. \A c \in Children : children[c].role \in Slots /\ c # None
        BY RolesAreSlots
    <3> QED
        BY <2>1, <2>2, <2>3, <3>1, <3>2, SameChildren DEF RolesFit
  <2> QED
      BY <2>4, <2>5
<1> QED
    BY <1>1, <1>2, <1>3, <1>4, <1>6, <1>7, <1>8 DEF Handler

(* The handler of SIGTERM, and children that end.                          *)
LEMMA FrdStop ==
    ASSUME Daemon = "frd", EarlyDeaths = FALSE, FrdInv,
           Terminate \/ Stop \/ \E c \in Children : ChildEnds(c)
    PROVE  DeathsFit' /\ (missing' = {} => RolesFit')
<1> USE DEF FrdInv, startVars, handlerVars, failures
<1>1. CASE Terminate \/ TellChildren \/ ParentExit
  <2>1. /\ children' = children /\ exitFlag' = exitFlag /\ mpc' = mpc
        /\ UNCHANGED <<gidx, Pid, mslot, hpc, hpid, hslot, newPid, missing>>
      BY <1>1 DEF Terminate, TellChildren, ParentExit
  <2>2. DeathsFit'
      BY <2>1, SameChildren DEF DeathsFit
  <2> QED
      BY <2>1, <2>2, SameChildren, RolesKept
<1>2. CASE SetExitFlag
  <2>1. DeathsFit'
      BY <1>2, SameChildren DEF SetExitFlag, DeathsFit
  <2> QED
      BY <1>2, <2>1, SameChildren, RolesKept DEF SetExitFlag
<1>3. ASSUME NEW c \in Children, NEW x \in {"zombie", "gone"},
             children[c].st = "alive" => x = "zombie",
             children[c].st # "gone", mpc = "loop" \/ exitFlag,
             children' = [children EXCEPT ![c].st = x],
             UNCHANGED <<gidx, Pid, exitFlag, startVars, handlerVars, newPid, failures>>
      PROVE  DeathsFit' /\ (missing' = {} => RolesFit')
  <2>1. /\ Children' = Children /\ children'[c].st = x
        /\ \A d \in Children : children'[d].role = children[d].role
        /\ \A d \in Children : d # c => children'[d] = children[d]
      BY <1>3, StateChanges DEF ForkBasics, TypeOK, ChildRecords
  <2>2. hpc \in {"scan", "store"} => hpid \in Children
      BY DEF ForkBasics, TypeOK, SlotsFit
  <2>3. DeathsFit'
      BY <1>3, <2>1, <2>2 DEF DeathsFit
  <2> QED
      BY <1>3, <2>1, <2>3, RolesKept
<1>4. CASE WaitForOne
  <2>1. exitFlag
    <3>1. tpc # 0 /\ tpc \in 0..3
        BY <1>4, StepOf DEF WaitForOne
    <3> QED
        BY <3>1 DEF FlagFirst
  <2>2. CASE UNCHANGED children
    <3>1. DeathsFit'
        BY <1>4, <2>2, SameChildren DEF WaitForOne, DeathsFit
    <3> QED
        BY <1>4, <2>2, <3>1, SameChildren, RolesKept DEF WaitForOne
  <2> QED
      BY <1>3, <1>4, <2>1, <2>2 DEF WaitForOne, Is
<1>5. ASSUME NEW c \in Children, ChildEnds(c)
      PROVE  DeathsFit' /\ (missing' = {} => RolesFit')
  <2>1. mpc = "loop" \/ exitFlag
      BY <1>5 DEF ChildEnds, FlagFirst
  <2> QED
      BY <1>3, <1>5, <2>1 DEF ChildEnds, Is
<1> QED
    BY <1>1, <1>2, <1>4, <1>5 DEF Stop

LEMMA FrdInvHolds ==
    ASSUME Daemon = "frd", EarlyDeaths = FALSE
    PROVE  Spec => []FrdInv
<1>1. Init => FrdInv
  <2> SUFFICES ASSUME Init PROVE FrdInv
      OBVIOUS
  <2>1. Children = {} /\ \A s \in Slots : Pid[s] = None
      BY DEF Init, Children
  <2> QED
      BY <2>1, BasicsInit DEF Init, FrdInv, FlagFirst, DeathsFit, RolesFit
<1>2. FrdInv /\ [Next]_vars => FrdInv'
  <2> SUFFICES ASSUME FrdInv, [Next]_vars
               PROVE  DeathsFit' /\ (missing' = {} => RolesFit')
      BY BasicsStep, FlagStep DEF FrdInv
  <2>1. CASE UNCHANGED vars
    <3>1. /\ children' = children /\ exitFlag' = exitFlag /\ mpc' = mpc
          /\ UNCHANGED <<gidx, Pid, mslot, hpc, hpid, hslot, newPid, missing>>
        BY <2>1 DEF vars, startVars, handlerVars, failures
    <3>2. DeathsFit'
        BY <3>1, SameChildren DEF FrdInv, DeathsFit
    <3> QED
        BY <3>1, <3>2, SameChildren, RolesKept DEF FrdInv
  <2> QED
      BY <2>1, FrdStart, FrdHandler, FrdStop DEF Next
<1> QED
    BY <1>1, <1>2, PTL DEF Spec

(* The child in a slot of dap_frd works on the data of the slot, unless a  *)
(* fork of the startup failed or a child died before all had been forked   *)
(* (frd_MainTask, frd_SigchldHandler, frd_ForkWork).                       *)
THEOREM FrdRoleOfSlot ==
    ASSUME Daemon = "frd", EarlyDeaths = FALSE
    PROVE  Spec => []RoleOfSlot
<1>1. FrdInv => RoleOfSlot
  <2> SUFFICES ASSUME FrdInv, missing = {}, NEW s \in Slots, Is(Pid[s], "alive")
               PROVE  children[Pid[s]].role = s
      BY DEF RoleOfSlot
  <2>1. Pid[s] # None
      BY DEF Is, Children, None
  <2> QED
      BY <2>1 DEF FrdInv, RolesFit
<1> QED
    BY FrdInvHolds, <1>1, PTL

(* ... and no two of its children read and unlink the files of one role.   *)
THEOREM FrdOneChildPerRole ==
    ASSUME Daemon = "frd", EarlyDeaths = FALSE
    PROVE  Spec => []OneChildPerRole
<1>1. FrdInv => OneChildPerRole
  <2> SUFFICES ASSUME FrdInv, missing = {}, NEW c \in Children, NEW d \in Children,
                      children[c].st = "alive", children[d].st = "alive",
                      children[c].role = children[d].role
               PROVE  c = d
      BY DEF OneChildPerRole, Is
  <2> DEFINE r == children[c].role
  <2>1. r \in Slots /\ c # None /\ d # None
      BY RolesAreSlots DEF FrdInv
  <2>2. mpc = "store" => Pid[mslot] = None /\ hpc # "store"
      BY DEF FrdInv, ForkBasics, TypeOK, SlotsFit, DeathsFit, Slots
  <2>3. hpc = "store" => Pid[hslot] # c /\ Pid[hslot] # d
      BY DEF FrdInv, DeathsFit
  <2> QED
      BY <2>1, <2>2, <2>3 DEF FrdInv, RolesFit
<1> QED
    BY FrdInvHolds, <1>1, PTL

(* Once dap_frd has begun to exit it forks no child, whatever dies and when*)
(* (frd_HandleSignal sets g_ChildExitFlag first).                          *)
THEOREM FrdNoneBornAtExit ==
    ASSUME Daemon = "frd"
    PROVE  Spec => NoneBornAtExit
<1> DEFINE I == ForkBasics /\ FlagFirst
<1>1. Init => I
    BY BasicsInit DEF Init, FlagFirst
<1>2. I /\ [Next]_vars => I'
    BY BasicsStep, FlagStep
<1>3. I /\ [Next]_vars => [tpc > 0 => Len(children') = Len(children)]_vars
  <2> SUFFICES ASSUME I, Next, tpc > 0 PROVE Len(children') = Len(children)
      OBVIOUS
  <2>1. ~Start
    <3>1. HasTerm \/ stack = <<>>
        BY DEF ForkBasics, StackFits
    <3>2. stack # <<"main">>
        <4>1. HasTerm => Len(stack) \in {2, 3}
            BY DEF HasTerm
        <4>2. stack = <<>> => Len(stack) = 0
            OBVIOUS
        <4>3. Len(<<"main">>) = 1
            OBVIOUS
        <4> QED BY <3>1, <4>1, <4>2, <4>3
    <3>3. stack \in Stacks
        <4>1. TypeOK
            BY DEF ForkBasics
        <4> QED BY <4>1, Zenon DEF TypeOK, Stacks
    <3>4. ~Runs("main")
        BY <3>2, <3>3, OnStack
    <3> QED
        BY <3>4 DEF Start, StartRole, StartFork, StartForkFails, StartStore
  <2>2. ~ForkAgain
      BY DEF ForkAgain, FlagFirst
  <2>3. ASSUME NEW c \in Children, NEW x \in {"zombie", "gone"},
               children' = [children EXCEPT ![c].st = x]
        PROVE  Len(children') = Len(children)
      BY <2>3, StateChanges DEF ForkBasics, TypeOK, ChildRecords
  <2>4. CASE Handler
      BY <2>2, <2>3, <2>4 DEF Handler, HandlerIsCalled, Reap, HandlerReturns,
                              SkipSlot, ForkAgainFails, StoreAgain
  <2>5. CASE Terminate \/ Stop
      BY <2>3, <2>5 DEF Terminate, Stop, TellChildren, SetExitFlag, WaitForOne, ParentExit
  <2>6. CASE \E c \in Children : ChildEnds(c)
      BY <2>3, <2>6 DEF ChildEnds
  <2> QED
      BY <2>1, <2>4, <2>5, <2>6 DEF Next
<1> QED
    BY <1>1, <1>2, <1>3, PTL DEF Spec, NoneBornAtExit
=============================================================================
