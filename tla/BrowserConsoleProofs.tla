------------------------- MODULE BrowserConsoleProofs -------------------------
(***************************************************************************)
(* Theorems about BrowserConsole, for any number of offers, sockets and    *)
(* rounds.                                                                 *)
(***************************************************************************)
EXTENDS BrowserConsole, FiniteSetTheorems, TLAPS

\* An action of the page, of a peer connection or of the agent.
LEMMA StepCases ==
    ASSUME Next
    PROVE  \/ ConnectToAgent \/ WsOpen \/ WsClose \/ Disconnect \/ OnOffer
           \/ (\E p \in Pc : RemoteSet(p))
           \/ (\E p \in Pc : AnswerCreated(p))
           \/ (\E p \in Pc : LocalSet(p))
           \/ AgentAccepts \/ Connected \/ NextRound
  BY Zenon DEF Next, PcStep, PeerClosed, RoundEnds

-----------------------------------------------------------------------------
(* Chains of operations *)

\* The operations, with any number of answers.
AnyOp == [by : Pc, op : {"setRemote", "createAnswer"}]
         \cup [by : Pc, op : {"setLocal"}, answer : [pc : Pc, n : Nat]]

\* Only the first operation of a chain sets the remote description.
RemoteFirst(s) == \A i \in 1..Len(s) : s[i].op = "setRemote" => i = 1
NoRemote(s) == \A i \in 1..Len(s) : s[i].op # "setRemote"

\* What is left of a chain when its first operation has ended.
LEMMA TailOps ==
    ASSUME NEW s \in Seq(AnyOp), s # <<>>, RemoteFirst(s)
    PROVE  Tail(s) \in Seq(AnyOp) /\ NoRemote(Tail(s))
<1>1. Tail(s) \in Seq(AnyOp) /\ Len(Tail(s)) = Len(s) - 1
  OBVIOUS
<1>2. \A i \in 1..Len(Tail(s)) : Tail(s)[i] = s[i + 1]
  OBVIOUS
<1>3. ASSUME NEW i \in 1..Len(Tail(s)) PROVE s[i + 1].op # "setRemote"
  BY <1>1 DEF RemoteFirst
<1> QED
  BY <1>1, <1>2, <1>3 DEF NoRemote

\* A chain that a handler adds its next operation to.
LEMMA AppendOps ==
    ASSUME NEW s \in Seq(AnyOp), NEW o \in AnyOp, o.op # "setRemote"
    PROVE  /\ Append(s, o) \in Seq(AnyOp)
           /\ RemoteFirst(s) => RemoteFirst(Append(s, o))
           /\ NoRemote(s) => NoRemote(Append(s, o))
<1>1. /\ Append(s, o) \in Seq(AnyOp) /\ Len(Append(s, o)) = Len(s) + 1
      /\ \A i \in 1..Len(s) : Append(s, o)[i] = s[i]
      /\ Append(s, o)[Len(s) + 1] = o
  OBVIOUS
<1>2. \A i \in 1..Len(Append(s, o)) : i \in 1..Len(s) \/ i = Len(s) + 1
  BY <1>1
<1> QED
  BY <1>1, <1>2 DEF RemoteFirst, NoRemote

\* The chains as the actions see them.
ChainsOK(c) == c \in [Pc -> Seq(AnyOp)] /\ \A p \in Pc : RemoteFirst(c[p])

\* The chain of p goes on to its next operation.
LEMMA RestOps ==
    ASSUME ChainsOK(chain), NEW p \in Pc, chain[p] # <<>>
    PROVE  ChainsOK(Rest(p)) /\ NoRemote(Rest(p)[p])
           /\ \A q \in Pc : q # p => Rest(p)[q] = chain[q]
<1>1. Tail(chain[p]) \in Seq(AnyOp) /\ NoRemote(Tail(chain[p]))
  BY TailOps DEF ChainsOK
<1>2. RemoteFirst(Tail(chain[p]))
  BY <1>1 DEF NoRemote, RemoteFirst
<1> QED
  BY <1>1, <1>2 DEF ChainsOK, Rest

\* A handler adds an operation to the chain of the global pc, or fails.
LEMMA AwaitOps ==
    ASSUME ChainsOK(chain), pc \in 0..MaxPc,
           NEW p \in Pc, chain[p] # <<>>, NEW h, NEW o \in AnyOp,
           o.op # "setRemote", Await(h, o, Rest(p))
    PROVE  /\ ChainsOK(chain') /\ NoRemote(chain'[p])
           /\ \A q \in Pc : q \notin {p, pc} => chain'[q] = chain[q]
           /\ \A q \in Pc : NoRemote(chain[q]) => NoRemote(chain'[q])
<1>1. /\ ChainsOK(Rest(p)) /\ NoRemote(Rest(p)[p])
      /\ \A q \in Pc : q # p => Rest(p)[q] = chain[q]
  BY RestOps
<1>2. CASE pc = 0
  BY <1>1, <1>2 DEF Await
<1>3. CASE pc # 0
  <2>1. pc \in Pc /\ Rest(p)[pc] \in Seq(AnyOp)
    BY <1>1, <1>3 DEF Pc, ChainsOK
  <2>2. chain' = [Rest(p) EXCEPT ![pc] = Append(@, o)]
    BY <1>3 DEF Await
  <2>3. /\ Append(Rest(p)[pc], o) \in Seq(AnyOp)
        /\ RemoteFirst(Append(Rest(p)[pc], o))
        /\ NoRemote(Rest(p)[pc]) => NoRemote(Append(Rest(p)[pc], o))
    BY <1>1, <2>1, AppendOps DEF ChainsOK
  <2>4. /\ chain' \in [Pc -> Seq(AnyOp)]
        /\ chain'[pc] = Append(Rest(p)[pc], o)
        /\ \A q \in Pc : q # pc => chain'[q] = Rest(p)[q]
    BY <1>1, <2>1, <2>2, <2>3 DEF ChainsOK
  <2> QED
    BY <1>1, <2>3, <2>4 DEF ChainsOK
<1> QED
  BY <1>2, <1>3

-----------------------------------------------------------------------------
(* The invariant *)

SigState == {"stable", "have-remote-offer", "answered", "closed"}

PageTypes ==
    /\ npc \in 0..MaxPc /\ pc \in 0..npc
    /\ sig \in [Pc -> SigState]
    /\ made \in [Pc -> Nat]
    /\ answers \in Seq([pc : Pc, by : Pc, via : Nat])
    /\ ws \in Nat /\ nws \in Nat
    /\ over \in [Pc -> Nat]

\* A connection whose remote description is still to be set has not answered.
RemoteComesFirst ==
    /\ ChainsOK(chain)
    /\ \A p \in Pc : NoRemote(chain[p]) \/ sig[p] \in {"stable", "closed"}

\* Nothing happens to a connection before it is made.
Unmade ==
    /\ \A p \in Pc : p > npc => sig[p] = "stable" /\ chain[p] = <<>>
    /\ \A i \in 1..Len(answers) : answers[i].pc <= npc

\* A connection that is not closed is the global one and of the socket there
\* is, or another offer came over its socket after its own.
OpenOrReplaced ==
    \A p \in 1..npc :
        sig[p] # "closed" => (pc = p /\ over[p] = ws) \/ Replaced(p)

AnswersInv == PageTypes /\ RemoteComesFirst /\ Unmade /\ AnswersAreApplied

\* The numbers of connections, and those that answers are of.
LEMMA Numbers ==
    ASSUME PageTypes
    PROVE  /\ MaxPc \in Nat /\ npc \in Nat /\ npc <= MaxPc
           /\ Len(answers) \in Nat
           /\ \A i \in 1..Len(answers) : answers[i].pc \in 1..MaxPc
<1> DEFINE R == [pc : Pc, by : Pc, via : Nat]
<1>1. answers \in Seq(R)
  BY DEF PageTypes
<1>2. \A i \in 1..Len(answers) : answers[i] \in R
  <2> HIDE DEF R
  <2> QED
    BY <1>1
<1>3. MaxPc \in Nat /\ npc \in Nat /\ npc <= MaxPc
  BY ConsoleAssumption DEF PageTypes
<1>4. Len(answers) \in Nat
  BY <1>1
<1> QED
  BY <1>2, <1>3, <1>4 DEF Pc

\* How reset changes the connections.
LEMMA CloseAllSig ==
    ASSUME PageTypes, CloseAll
    PROVE  /\ sig' \in [Pc -> SigState] /\ pc' = 0
           /\ \A q \in Pc : sig'[q] = IF q = pc THEN "closed" ELSE sig[q]
  BY ConsoleAssumption DEF PageTypes, CloseAll, SigState, Pc

\* Every step keeps the types and the rule that a remote description is set
\* first, while its connection is in its first state.
LEMMA AnswersStep ==
    ASSUME AnswersInv, [Next]_vars
    PROVE  AnswersInv'
<1> USE ConsoleAssumption DEF AnswersInv
<1>0. /\ Len(answers) \in Nat /\ \A i \in 1..Len(answers) : answers[i].pc \in Pc
      /\ npc \in Nat /\ \A p \in Pc : p \in Nat
  BY Numbers DEF Pc
<1>1. CASE UNCHANGED vars
  BY <1>1 DEF vars, PageTypes, RemoteComesFirst, Unmade, AnswersAreApplied,
     ChainsOK
<1>2. CASE ConnectToAgent \/ Disconnect
  <2>1. /\ CloseAll
        /\ UNCHANGED <<npc, over, chain, made, answers>>
        /\ ws' \in Nat /\ nws' \in Nat
    BY <1>2 DEF ConnectToAgent, Disconnect, PageTypes
  <2>2. PageTypes'
    BY <2>1, CloseAllSig DEF PageTypes
  <2>3. RemoteComesFirst'
    BY <2>1, CloseAllSig DEF RemoteComesFirst, ChainsOK
  <2>4. Unmade'
    BY <2>1, CloseAllSig DEF Unmade, PageTypes
  <2>5. AnswersAreApplied'
    <3>1. \A i \in 1..Len(answers) :
             sig'[answers[i].pc] \in {sig[answers[i].pc], "closed"}
      BY <2>1, <1>0, CloseAllSig
    <3> QED
      BY <3>1, <2>1 DEF AnswersAreApplied
  <2> QED
    BY <2>2, <2>3, <2>4, <2>5
<1>3. CASE WsOpen \/ WsClose \/ AgentAccepts \/ Connected \/ NextRound
  <2>1. UNCHANGED <<pc, npc, sig, over, chain, made, answers, ws, nws>>
    BY <1>3 DEF WsOpen, WsClose, AgentAccepts, Connected, NextRound, peerVars,
       sockVars, pageVars
  <2> QED
    BY <2>1 DEF PageTypes, RemoteComesFirst, Unmade, AnswersAreApplied, ChainsOK
<1>4. CASE OnOffer
  <2> DEFINE first == <<[by |-> npc', op |-> "setRemote"]>>
  <2>1. /\ npc' = npc + 1 /\ npc' \in Pc /\ pc' = npc'
        /\ over' = [over EXCEPT ![npc'] = ws]
        /\ chain' = [chain EXCEPT ![npc'] = first]
        /\ UNCHANGED <<ws, nws, sig, made, answers>>
    BY <1>4 DEF OnOffer, sockVars, PageTypes, Pc
  <2>2. PageTypes'
    BY <2>1 DEF PageTypes, Pc
  <2>3. first \in Seq(AnyOp) /\ RemoteFirst(first)
    BY <2>1 DEF AnyOp, RemoteFirst
  <2>4. sig[npc'] = "stable"
    BY <2>1 DEF Unmade, PageTypes
  <2>5. /\ chain' \in [Pc -> Seq(AnyOp)] /\ chain'[npc'] = first
        /\ \A q \in Pc : q # npc' => chain'[q] = chain[q]
    BY <2>1, <2>3 DEF RemoteComesFirst, ChainsOK
  <2>6. RemoteComesFirst'
    <3> HIDE DEF first
    <3> QED
      BY <2>1, <2>3, <2>4, <2>5 DEF RemoteComesFirst, ChainsOK
  <2>7. Unmade'
    <3> HIDE DEF first
    <3>1. \A p \in Pc : p > npc' => p > npc /\ p # npc'
      BY <2>1 DEF Pc, PageTypes
    <3>2. \A i \in 1..Len(answers) : answers[i].pc <= npc'
      <4>1. \A i \in 1..Len(answers) : answers[i].pc <= npc
        BY DEF Unmade
      <4> QED
        BY <4>1, <2>1, <1>0
    <3> QED
      BY <3>1, <3>2, <2>1, <2>5 DEF Unmade
  <2>8. AnswersAreApplied'
    BY <2>1 DEF AnswersAreApplied
  <2> QED
    BY <2>2, <2>6, <2>7, <2>8
<1>5. CASE \E p \in Pc : RemoteSet(p)
  <2> PICK p \in Pc : RemoteSet(p)
    BY <1>5
  <2> DEFINE o == [by |-> Head(chain[p]).by, op |-> "createAnswer"]
  <2>1. /\ chain[p] # <<>> /\ Head(chain[p]).op = "setRemote" /\ sig[p] # "closed"
        /\ sig' = [sig EXCEPT ![p] = "have-remote-offer"]
        /\ Await(Head(chain[p]).by, o, Rest(p))
        /\ UNCHANGED <<ws, nws, pc, npc, over, made, answers>>
    BY DEF RemoteSet, Running, sockVars
  <2>2. chain[p] \in Seq(AnyOp) /\ Head(chain[p]) = chain[p][1]
        /\ 1 \in 1..Len(chain[p]) /\ chain[p][1] \in AnyOp
    BY <2>1 DEF RemoteComesFirst, ChainsOK
  <2>3. sig[p] = "stable"
    BY <2>1, <2>2 DEF RemoteComesFirst, NoRemote
  <2>4. o \in AnyOp /\ o.op # "setRemote"
    BY <2>2 DEF AnyOp
  <2>5. /\ ChainsOK(chain') /\ NoRemote(chain'[p])
        /\ \A q \in Pc : q \notin {p, pc} => chain'[q] = chain[q]
        /\ \A q \in Pc : NoRemote(chain[q]) => NoRemote(chain'[q])
    <3> HIDE DEF o
    <3>1. ChainsOK(chain) /\ pc \in 0..MaxPc
      BY DEF RemoteComesFirst, PageTypes
    <3> QED
      BY <2>1, <2>4, <3>1, AwaitOps
  <2>6. PageTypes'
    BY <2>1 DEF PageTypes, SigState
  <2>7. RemoteComesFirst'
    BY <2>1, <2>5 DEF RemoteComesFirst, PageTypes
  <2>8. Unmade'
    <3>1. p <= npc
      BY <2>1 DEF Unmade, PageTypes, Pc
    <3>2. \A q \in Pc : q > npc => q \notin {p, pc}
      BY <3>1, <1>0 DEF PageTypes, Pc
    <3>3. \A q \in Pc : q # p => sig'[q] = sig[q]
      BY <2>1 DEF PageTypes
    <3> QED
      BY <3>2, <3>3, <2>1, <2>5 DEF Unmade
  <2>9. AnswersAreApplied'
    <3>1. \A i \in 1..Len(answers) : sig[answers[i].pc] # "stable"
      BY DEF AnswersAreApplied
    <3>2. \A i \in 1..Len(answers) : sig'[answers[i].pc] = sig[answers[i].pc]
      BY <3>1, <2>1, <2>3, <1>0 DEF PageTypes
    <3> QED
      BY <3>2, <2>1 DEF AnswersAreApplied
  <2> QED
    BY <2>6, <2>7, <2>8, <2>9
<1>6. CASE \E p \in Pc : AnswerCreated(p)
  <2> PICK p \in Pc : AnswerCreated(p)
    BY <1>6
  <2> DEFINE h == Head(chain[p]).by
             o == [by |-> h, op |-> "setLocal",
                   answer |-> [pc |-> p, n |-> made[p] + 1]]
  <2>1. /\ chain[p] # <<>>
        /\ \/ Await(h, o, Rest(p)) /\ made' = [made EXCEPT ![p] = @ + 1]
           \/ Fail(h, p) /\ made' = made
        /\ UNCHANGED <<ws, nws, pc, npc, over, sig, answers>>
    BY DEF AnswerCreated, Running, sockVars
  <2>2. ChainsOK(chain) /\ pc \in 0..MaxPc
    BY DEF RemoteComesFirst, PageTypes
  <2>3. o \in AnyOp /\ o.op # "setRemote"
    <3>1. Head(chain[p]) \in AnyOp
      BY <2>1, <2>2 DEF ChainsOK
    <3> QED
      BY <3>1 DEF AnyOp, PageTypes
  <2>4. /\ ChainsOK(chain')
        /\ \A q \in Pc : q \notin {p, pc} => chain'[q] = chain[q]
        /\ \A q \in Pc : NoRemote(chain[q]) => NoRemote(chain'[q])
    <3> HIDE DEF o, h
    <3>1. CASE Await(h, o, Rest(p))
      BY <2>1, <2>2, <2>3, <3>1, AwaitOps
    <3>2. CASE chain' = Rest(p)
      BY <2>1, <2>2, <3>2, RestOps
    <3> QED
      BY <2>1, <3>1, <3>2 DEF Fail
  <2>5. PageTypes'
    <3>1. made' \in [Pc -> Nat]
      <4>1. made' = made \/ made' = [made EXCEPT ![p] = made[p] + 1]
        BY <2>1
      <4>2. made \in [Pc -> Nat] /\ made[p] + 1 \in Nat
        BY DEF PageTypes
      <4> QED
        BY <4>1, <4>2
    <3> QED
      BY <3>1, <2>1 DEF PageTypes
  <2>6. RemoteComesFirst'
    BY <2>1, <2>4 DEF RemoteComesFirst
  <2>7. Unmade'
    <3>1. p <= npc
      BY <2>1 DEF Unmade, PageTypes, Pc
    <3>2. \A q \in Pc : q > npc => q \notin {p, pc}
      BY <3>1, <1>0 DEF PageTypes, Pc
    <3> QED
      BY <3>2, <2>1, <2>4 DEF Unmade
  <2>8. AnswersAreApplied'
    BY <2>1 DEF AnswersAreApplied
  <2> QED
    BY <2>5, <2>6, <2>7, <2>8
<1>7. CASE \E p \in Pc : LocalSet(p)
  <2> PICK p \in Pc : LocalSet(p)
    BY <1>7
  <2> DEFINE h == Head(chain[p]).by
             a == [pc |-> p, by |-> h, via |-> ws]
  <2>1. /\ chain[p] # <<>> /\ chain' = Rest(p)
        /\ UNCHANGED <<ws, nws, pc, npc, over, made>>
        /\ \/ /\ sig[p] = "have-remote-offer"
              /\ sig' = [sig EXCEPT ![p] = "answered"]
              /\ answers' = Append(answers, a) \/ answers' = answers
           \/ UNCHANGED <<sig, answers>>
    BY DEF LocalSet, Running, Applicable, SendAnswer, Fail, sockVars
  <2>2. ChainsOK(chain)
    BY DEF RemoteComesFirst
  <2>3. /\ ChainsOK(chain') /\ NoRemote(chain'[p])
        /\ \A q \in Pc : q # p => chain'[q] = chain[q]
    BY <2>1, <2>2, RestOps
  <2>4. a \in [pc : Pc, by : Pc, via : Nat] /\ p <= npc
    <3>1. Head(chain[p]) \in AnyOp
      BY <2>1, <2>2 DEF ChainsOK
    <3> QED
      BY <3>1, <2>1 DEF AnyOp, PageTypes, Unmade, Pc
  <2>5. RemoteComesFirst'
    BY <2>1, <2>3 DEF RemoteComesFirst, PageTypes
  <2>6. CASE answers' = answers
    <3>1. PageTypes'
      BY <2>1, <2>6 DEF PageTypes, SigState
    <3>2. Unmade'
      <4>1. \A q \in Pc : q > npc => q # p
        BY <2>4, <1>0
      <4> QED
        BY <4>1, <2>1, <2>3, <2>6 DEF Unmade, PageTypes
    <3>3. AnswersAreApplied'
      <4>1. \A i \in 1..Len(answers) :
               sig'[answers[i].pc] \in {sig[answers[i].pc], "answered"}
        BY <2>1, <1>0 DEF PageTypes
      <4> QED
        BY <4>1, <2>6 DEF AnswersAreApplied
    <3> QED
      BY <2>5, <3>1, <3>2, <3>3
  <2>7. CASE /\ sig[p] = "have-remote-offer"
             /\ sig' = [sig EXCEPT ![p] = "answered"]
             /\ answers' = Append(answers, a)
    <3> DEFINE m == Len(answers)
    <3>1. /\ answers' \in Seq([pc : Pc, by : Pc, via : Nat])
          /\ m \in Nat /\ Len(answers') = m + 1 /\ answers'[m + 1] = a
          /\ \A i \in 1..m : answers'[i] = answers[i]
      BY <2>4, <2>7 DEF PageTypes
    <3>2. \A i \in 1..(m + 1) : i \in 1..m \/ i = m + 1
      BY <3>1
    <3>3. PageTypes'
      BY <2>1, <2>7, <3>1 DEF PageTypes, SigState
    <3>4. Unmade'
      <4>1. \A q \in Pc : q > npc => q # p
        BY <2>4 DEF PageTypes, Pc
      <4>2. \A i \in 1..(m + 1) : answers'[i].pc <= npc
        BY <3>1, <3>2, <2>4 DEF Unmade
      <4> QED
        BY <4>1, <4>2, <2>1, <2>3, <2>7, <3>1 DEF Unmade, PageTypes
    <3>5. \A i \in 1..m : answers[i].pc # p /\ answers[i].pc \in Pc
      BY <2>7, <1>0 DEF AnswersAreApplied
    <3>6. AnswersAreApplied'
      <4>1. \A q \in Pc : q # p => sig'[q] = sig[q]
        BY <2>7 DEF PageTypes
      <4>2. sig'[p] = "answered" /\ a.pc = p
        BY <2>7 DEF PageTypes
      <4>3. \A i \in 1..(m + 1) : sig'[answers'[i].pc] \in {"answered", "closed"}
        BY <3>1, <3>2, <3>5, <4>1, <4>2 DEF AnswersAreApplied
      <4>4. \A i, j \in 1..(m + 1) : answers'[i].pc = answers'[j].pc => i = j
        BY <3>1, <3>2, <3>5, <4>2 DEF AnswersAreApplied
      <4> QED
        BY <3>1, <4>3, <4>4 DEF AnswersAreApplied
    <3> QED
      BY <2>5, <3>3, <3>4, <3>6
  <2> QED
    BY <2>1, <2>6, <2>7
<1> QED
  BY <1>1, <1>2, <1>3, <1>4, <1>5, <1>6, <1>7, StepCases

\* What every behaviour of the page keeps.
THEOREM AnswersHold == Spec => []AnswersInv
<1>1. Init => AnswersInv
  BY ConsoleAssumption DEF Init, AnswersInv, PageTypes, RemoteComesFirst, ChainsOK,
     RemoteFirst, NoRemote, Unmade, AnswersAreApplied, SigState
<1> QED
  BY <1>1, AnswersStep, PTL DEF Spec

\* However the handlers of several offers meet on the global pc, an answer
\* that was sent is the local description of its connection, and the only one.
THEOREM SentIsApplied == Spec => []AnswersAreApplied
<1>1. AnswersInv => AnswersAreApplied
  BY DEF AnswersInv
<1> QED
  BY <1>1, AnswersHold, PTL

-----------------------------------------------------------------------------
(* Which socket an answer goes over *)

\* AnswersKeepToTheirSocket, of the offers that have come.
ViaOwnOrReplaced ==
    \A i \in 1..Len(answers) :
        answers[i].via = over[answers[i].pc] \/ Replaced(answers[i].pc)

SocketsInv == OpenOrReplaced /\ ViaOwnOrReplaced

\* Once an offer has taken the place of p, p stays replaced.
LEMMA ReplacedStays ==
    ASSUME npc \in Nat, NEW p \in 1..npc, Replaced(p), npc' \in Nat, npc' >= npc,
           \A q \in 1..npc : over'[q] = over[q]
    PROVE  Replaced(p)'
<1>1. PICK q \in (p + 1)..npc : over[q] = over[p]
  BY DEF Replaced
<1>2. q \in 1..npc /\ q \in (p + 1)..npc'
  OBVIOUS
<1> QED
  BY <1>1, <1>2 DEF Replaced

\* Every step keeps what is known of the sockets and of the connections that
\* were replaced.
LEMMA SocketsStep ==
    ASSUME AnswersInv, SocketsInv, [Next]_vars
    PROVE  SocketsInv'
<1> USE DEF SocketsInv
<1>0. /\ PageTypes /\ npc \in Nat /\ npc <= MaxPc /\ MaxPc \in Nat
      /\ Len(answers) \in Nat
      /\ \A i \in 1..Len(answers) : answers[i].pc \in 1..npc
  BY Numbers DEF AnswersInv, Unmade
\* What is enough for the answers that are there.
<1>1. ASSUME npc' \in Nat, npc' >= npc, answers' = answers,
             \A q \in 1..npc : over'[q] = over[q]
      PROVE  ViaOwnOrReplaced'
  <2> SUFFICES ASSUME NEW i \in 1..Len(answers)
               PROVE  \/ answers[i].via = over'[answers[i].pc]
                      \/ Replaced(answers[i].pc)'
    BY <1>1 DEF ViaOwnOrReplaced, Replaced
  <2>1. answers[i].pc \in 1..npc
    BY <1>0
  <2>2. CASE Replaced(answers[i].pc)
    BY <2>1, <2>2, <1>0, <1>1, ReplacedStays
  <2>3. CASE answers[i].via = over[answers[i].pc]
    BY <2>1, <2>3, <1>1
  <2> QED
    BY <2>2, <2>3 DEF ViaOwnOrReplaced
<1>2. CASE ConnectToAgent \/ Disconnect
  <2>1. CloseAll /\ UNCHANGED <<npc, over, answers>>
    BY <1>2 DEF ConnectToAgent, Disconnect
  <2>2. OpenOrReplaced'
    <3> SUFFICES ASSUME NEW p \in 1..npc, sig'[p] # "closed"
                 PROVE  Replaced(p)'
      BY <2>1 DEF OpenOrReplaced
    <3>1. p # pc /\ sig[p] # "closed"
      <4>1. p \in Pc
        BY <1>0 DEF Pc
      <4> QED
        BY <4>1, <1>0, <2>1, CloseAllSig
    <3>2. Replaced(p)
      BY <3>1 DEF OpenOrReplaced
    <3> QED
      BY <3>2, <2>1 DEF Replaced
  <2> QED
    BY <2>1, <2>2, <1>0, <1>1
<1>3. CASE OnOffer
  <2>1. /\ npc' = npc + 1 /\ npc' \in Pc /\ pc' = npc'
        /\ over' = [over EXCEPT ![npc'] = ws]
        /\ UNCHANGED <<ws, sig, answers>>
    BY <1>3, <1>0 DEF OnOffer, sockVars, Pc
  <2>2. /\ over'[npc'] = ws /\ \A q \in 1..npc : over'[q] = over[q]
        /\ npc' \in Nat /\ npc' >= npc
    BY <2>1, <1>0 DEF PageTypes, Pc
  <2>3. ASSUME NEW p \in 1..npc', sig[p] # "closed", p # npc'
        PROVE  Replaced(p)'
    <3>1. p \in 1..npc
      BY <2>1, <2>3, <1>0
    <3>2. CASE Replaced(p)
      BY <3>1, <3>2, <2>2, <1>0, ReplacedStays
    <3>3. CASE over[p] = ws
      <4>1. npc' \in (p + 1)..npc' /\ over'[npc'] = over'[p]
        BY <3>1, <3>3, <2>1, <2>2, <1>0
      <4> QED
        BY <4>1 DEF Replaced
    <3> QED
      BY <2>3, <3>1, <3>2, <3>3 DEF OpenOrReplaced
  <2>4. OpenOrReplaced'
    BY <2>1, <2>2, <2>3 DEF OpenOrReplaced
  <2> QED
    BY <2>1, <2>2, <2>4, <1>1
<1>4. CASE \E p \in Pc : LocalSet(p)
  <2> PICK p \in Pc : LocalSet(p)
    BY <1>4
  <2> DEFINE a == [pc |-> p, by |-> Head(chain[p]).by, via |-> ws]
  <2>1. /\ UNCHANGED <<ws, pc, npc, over>> /\ sig[p] # "closed"
        /\ sig' = [sig EXCEPT ![p] = "answered"] \/ sig' = sig
        /\ answers' = Append(answers, a) \/ answers' = answers
    BY DEF LocalSet, Running, SendAnswer, Fail, sockVars
  <2>2. \A q \in Pc : sig'[q] = "closed" <=> sig[q] = "closed"
    BY <2>1, <1>0 DEF PageTypes
  <2>3. OpenOrReplaced'
    BY <2>1, <2>2, <1>0 DEF OpenOrReplaced, Replaced, Pc
  <2>4. CASE answers' = answers
    BY <2>1, <2>3, <2>4, <1>0, <1>1
  <2>5. CASE answers' = Append(answers, a)
    <3>1. chain[p] # <<>> /\ chain[p] \in Seq(AnyOp)
      BY DEF LocalSet, Running, AnswersInv, RemoteComesFirst, ChainsOK
    <3>2. a \in [pc : Pc, by : Pc, via : Nat]
      <4>1. Head(chain[p]) \in AnyOp
        BY <3>1
      <4> QED
        BY <4>1, <1>0 DEF AnyOp, PageTypes
    <3>3. p \in 1..npc
      BY <3>1, <1>0 DEF AnswersInv, Unmade, Pc
    <3>4. a.via = over[p] \/ Replaced(p)
      BY <2>1, <3>3 DEF OpenOrReplaced
    <3>5. /\ Len(answers') = Len(answers) + 1 /\ answers'[Len(answers) + 1] = a
          /\ \A i \in 1..Len(answers) : answers'[i] = answers[i]
      BY <2>5, <3>2, <1>0 DEF PageTypes
    <3>6. \A i \in 1..Len(answers') : i \in 1..Len(answers) \/ i = Len(answers) + 1
      BY <3>5, <1>0
    <3>7. \A q : Replaced(q)' <=> Replaced(q)
      BY <2>1 DEF Replaced
    <3>8. ViaOwnOrReplaced'
      BY <2>1, <3>4, <3>5, <3>6, <3>7 DEF ViaOwnOrReplaced, Replaced
    <3> QED
      BY <2>3, <3>8
  <2> QED
    BY <2>1, <2>4, <2>5
<1>5. CASE (\E p \in Pc : RemoteSet(p)) \/ (\E p \in Pc : AnswerCreated(p))
  <2>1. /\ UNCHANGED <<ws, pc, npc, over, answers>>
        /\ \/ sig' = sig
           \/ \E p \in Pc : /\ sig[p] # "closed"
                            /\ sig' = [sig EXCEPT ![p] = "have-remote-offer"]
    BY <1>5 DEF RemoteSet, AnswerCreated, Running, sockVars
  <2>2. \A q \in Pc : sig'[q] = "closed" <=> sig[q] = "closed"
    BY <2>1, <1>0 DEF PageTypes
  <2>3. OpenOrReplaced'
    BY <2>1, <2>2, <1>0 DEF OpenOrReplaced, Replaced, Pc
  <2> QED
    BY <2>1, <2>3, <1>0, <1>1
<1>6. CASE UNCHANGED vars \/ WsOpen \/ WsClose \/ AgentAccepts \/ Connected
           \/ NextRound
  <2>1. UNCHANGED <<ws, pc, npc, sig, over, answers>>
    BY <1>6 DEF vars, WsOpen, WsClose, AgentAccepts, Connected, NextRound,
       peerVars, sockVars, pageVars
  <2>2. OpenOrReplaced'
    BY <2>1 DEF OpenOrReplaced, Replaced
  <2> QED
    BY <2>1, <2>2, <1>0, <1>1
<1> QED
  BY <1>2, <1>3, <1>4, <1>5, <1>6, StepCases

\* No handler that a reset overtook sends its answer over the next socket; the
\* exception is a connection that another offer had replaced before.
THEOREM SocketIsKept == Spec => []AnswersKeepToTheirSocket
<1>1. Init => SocketsInv
  BY DEF Init, SocketsInv, OpenOrReplaced, ViaOwnOrReplaced
<1>2. AnswersInv /\ SocketsInv => AnswersKeepToTheirSocket
  <2> SUFFICES ASSUME AnswersInv, SocketsInv, NEW i \in 1..Len(answers),
                      Replaced(answers[i].pc)
               PROVE  \E q \in Pc : q > answers[i].pc
                                    /\ over[q] = over[answers[i].pc]
    BY DEF SocketsInv, ViaOwnOrReplaced, AnswersKeepToTheirSocket
  <2> DEFINE p == answers[i].pc
  <2>1. npc \in Nat /\ npc <= MaxPc /\ MaxPc \in Nat /\ p \in Nat
    BY Numbers DEF AnswersInv
  <2>2. PICK q \in (p + 1)..npc : over[q] = over[p]
    BY DEF Replaced
  <2> HIDE DEF p
  <2>3. q \in Pc /\ q > p
    BY <2>1, <2>2 DEF Pc
  <2> QED
    BY <2>2, <2>3 DEF p
<1> QED
  BY <1>1, <1>2, SocketsStep, AnswersHold, PTL DEF Spec

-----------------------------------------------------------------------------
(* Types: whose the operations are, and how many answers there can be *)

\* Handler h owns an operation of one of the chains c; it owns one that comes
\* before its answer.
Owns(c, h) == \E p \in Pc : \E i \in 1..Len(c[p]) : c[p][i].by = h
Asks(c, h) == \E p \in Pc : \E i \in 1..Len(c[p]) :
                  c[p][i].by = h /\ c[p][i].op # "setLocal"

\* A handler awaits one promise at a time: it owns at most one operation.
OneEach(c) ==
    \A p, q \in Pc : \A i \in 1..Len(c[p]), j \in 1..Len(c[q]) :
        c[p][i].by = c[q][j].by => p = q /\ i = j

\* Of the first n handlers, those that have an answer or will never have one.
Asked(c, n) == {h \in 1..n : ~Asks(c, h)}

\* The chains hold operations of handlers that were started, one each.
OwnersInv ==
    /\ chain \in [Pc -> Seq(Op)]
    /\ OneEach(chain)
    /\ \A h \in Pc : Owns(chain, h) => h <= npc

\* Of each connection no more answers were created than handlers asked.
MadeInv == \A p \in Pc : made[p] <= Cardinality(Asked(chain, npc))

\* An answer goes over the socket there is, which is one that was opened.
SockInv ==
    /\ ws \in 0..MaxWs /\ nws \in 0..MaxWs
    /\ wsState \in {"none", "connecting", "open", "closed"}
    /\ wsState \in {"connecting", "open"} => ws # 0
    /\ over \in [Pc -> 0..MaxWs]
    /\ \A i \in 1..Len(answers) : answers[i].via \in 1..MaxWs

\* What the agent took from the page, and what became of the handlers.
AgentInv ==
    /\ dc \in 0..npc /\ accepted \in 0..npc
    /\ offer \in [Pc -> 0..MaxRound] /\ round \in 1..MaxRound
    /\ handler \in [Pc -> {"none", "waits", "sent", "failed"}]
    /\ taken \in 0..Len(answers)

\* A chain without its first operation: whose are those that are left.
LEMMA RestOwners ==
    ASSUME NEW K, NEW c \in [Pc -> Seq(K)], NEW p \in Pc, c[p] # <<>>,
           OneEach(c), NEW d \in [Pc -> Seq(K)], d[p] = Tail(c[p]),
           \A q \in Pc : q # p => d[q] = c[q]
    PROVE  /\ OneEach(d) /\ ~Owns(d, c[p][1].by)
           /\ \A g : Owns(d, g) => Owns(c, g)
           /\ \A g : Asks(d, g) => Asks(c, g)
<1>1. Tail(c[p]) \in Seq(K) /\ Len(Tail(c[p])) = Len(c[p]) - 1
      /\ \A i \in 1..Len(Tail(c[p])) : Tail(c[p])[i] = c[p][i + 1]
  OBVIOUS
<1>3. \A q \in Pc : c[q] \in Seq(K) /\ Len(c[q]) \in Nat /\ d[q] \in Seq(K) /\ Len(d[q]) \in Nat
  OBVIOUS
<1>4. Len(c[p]) # 0 BY <1>3
<1> DEFINE at(q, i) == IF q = p THEN i + 1 ELSE i
<1>5. ASSUME NEW q \in Pc, NEW i \in 1..Len(d[q])
      PROVE  /\ at(q, i) \in 1..Len(c[q]) /\ d[q][i] = c[q][at(q, i)]
             /\ q = p => at(q, i) # 1
  <2>1. CASE q = p
    BY <2>1, <1>1, <1>3, <1>4
  <2>2. CASE q # p
    BY <2>2, <1>3
  <2> QED
    BY <2>1, <2>2
<1>7. \A q \in Pc, i, j \in Nat : at(q, i) = at(q, j) => i = j
  OBVIOUS
<1> HIDE DEF at
<1>8. OneEach(d)
  <2> SUFFICES ASSUME NEW q \in Pc, NEW r \in Pc, NEW i \in 1..Len(d[q]), NEW j \in 1..Len(d[r]),
                      d[q][i].by = d[r][j].by
               PROVE  q = r /\ i = j
    BY DEF OneEach
  <2>1. /\ at(q, i) \in 1..Len(c[q]) /\ at(r, j) \in 1..Len(c[r])
        /\ c[q][at(q, i)].by = c[r][at(r, j)].by
    BY <1>5
  <2>2. q = r /\ at(q, i) = at(r, j)
    BY <2>1 DEF OneEach
  <2> QED
    BY <2>2, <1>7
<1>9. ~Owns(d, c[p][1].by)
  <2> SUFFICES ASSUME NEW q \in Pc, NEW i \in 1..Len(d[q]), d[q][i].by = c[p][1].by
               PROVE  FALSE
    BY DEF Owns
  <2>1. 1 \in 1..Len(c[p])
    BY <1>3, <1>4
  <2>2. at(q, i) \in 1..Len(c[q]) /\ c[q][at(q, i)].by = c[p][1].by
    BY <1>5
  <2>3. q = p /\ at(q, i) = 1
    BY <2>1, <2>2 DEF OneEach
  <2> QED
    BY <2>3, <1>5
<1>10. ASSUME NEW g PROVE (Owns(d, g) => Owns(c, g)) /\ (Asks(d, g) => Asks(c, g))
  BY <1>5 DEF Owns, Asks
<1> QED
  BY <1>8, <1>9, <1>10

\* The chains d are the chains c with o behind the others of p's.
Longer(c, d, p, o) ==
    /\ \A q \in Pc : Len(c[q]) \in Nat /\ (q # p => d[q] = c[q])
    /\ Len(d[p]) = Len(c[p]) + 1 /\ d[p][Len(c[p]) + 1] = o
    /\ \A i \in 1..Len(c[p]) : d[p][i] = c[p][i]

\* A chain with one more operation, of a handler that had none.
LEMMA AppendOwners ==
    ASSUME NEW c, NEW d, NEW p \in Pc, NEW o, OneEach(c), ~Owns(c, o.by),
           Longer(c, d, p, o)
    PROVE  /\ OneEach(d)
           /\ \A g : Owns(d, g) => Owns(c, g) \/ g = o.by
           /\ \A g : Asks(d, g) => Asks(c, g) \/ (g = o.by /\ o.op # "setLocal")
<1> USE DEF Longer
<1> DEFINE New(q, i) == q = p /\ i = Len(c[p]) + 1
<1>4. ASSUME NEW q \in Pc, NEW i \in 1..Len(d[q])
      PROVE  IF New(q, i) THEN d[q][i] = o
                          ELSE i \in 1..Len(c[q]) /\ d[q][i] = c[q][i]
  <2>1. CASE q = p
    BY <2>1
  <2>2. CASE q # p
    BY <2>2
  <2> QED
    BY <2>1, <2>2
<1>5. ASSUME NEW q \in Pc, NEW i \in 1..Len(d[q]), ~New(q, i)
      PROVE  d[q][i].by # o.by
  BY <1>4, <1>5 DEF Owns
<1>6. OneEach(d)
  <2> SUFFICES ASSUME NEW q \in Pc, NEW r \in Pc, NEW i \in 1..Len(d[q]), NEW j \in 1..Len(d[r]),
                      d[q][i].by = d[r][j].by
               PROVE  q = r /\ i = j
    BY DEF OneEach
  <2>1. CASE New(q, i)
    <3>1. New(r, j)
      BY <2>1, <1>4, <1>5
    <3> QED
      BY <2>1, <3>1
  <2>2. CASE ~New(q, i)
    <3>1. ~New(r, j)
      BY <2>2, <1>4, <1>5
    <3>2. i \in 1..Len(c[q]) /\ j \in 1..Len(c[r]) /\ c[q][i].by = c[r][j].by
      BY <2>2, <3>1, <1>4
    <3> QED
      BY <3>2 DEF OneEach
  <2> QED
    BY <2>1, <2>2
<1>7. ASSUME NEW g, Owns(d, g) PROVE Owns(c, g) \/ g = o.by
  <2>1. PICK q \in Pc : \E i \in 1..Len(d[q]) : d[q][i].by = g
    BY <1>7 DEF Owns
  <2> QED
    BY <2>1, <1>4 DEF Owns
<1>8. ASSUME NEW g, Asks(d, g) PROVE Asks(c, g) \/ (g = o.by /\ o.op # "setLocal")
  <2>1. PICK q \in Pc : \E i \in 1..Len(d[q]) :
                              d[q][i].by = g /\ d[q][i].op # "setLocal"
    BY <1>8 DEF Asks
  <2> QED
    BY <2>1, <1>4 DEF Asks
<1> QED
  BY <1>6, <1>7, <1>8

\* Who owns one operation each cannot fill a chain beyond their number.
LEMMA ChainBound ==
    ASSUME OwnersInv, NEW p \in Pc, npc \in Nat
    PROVE  Len(chain[p]) <= npc
<1> DEFINE s == chain[p]
           f == [i \in 1..Len(s) |-> s[i].by]
<1>1. s \in Seq(Op) /\ Len(s) \in Nat
  BY DEF OwnersInv
<1>2. \A i \in 1..Len(s) : s[i] \in Op
  <2> HIDE DEF s
  <2> QED BY <1>1
<1>3. ASSUME NEW i \in 1..Len(s) PROVE s[i].by \in 1..npc
  <2>1. s[i].by \in Pc
    BY <1>2 DEF Op
  <2>2. Owns(chain, s[i].by)
    BY DEF Owns
  <2>3. s[i].by <= npc
    BY <2>1, <2>2 DEF OwnersInv
  <2> QED
    BY <2>1, <2>3 DEF Pc
<1>4. \A i, j \in 1..Len(s) : s[i].by = s[j].by => i = j
  BY Zenon DEF OwnersInv, OneEach
<1> HIDE DEF s
<1>5. f \in Injection(1..Len(s), 1..npc)
  BY <1>3, <1>4 DEF Injection, IsInjective
<1>6. /\ IsFiniteSet(1..npc) /\ Cardinality(1..npc) = npc
      /\ Cardinality(1..Len(s)) = Len(s)
  <2>1. ASSUME NEW n \in Nat PROVE IsFiniteSet(1..n) /\ Cardinality(1..n) = n
    <3>1. n \in Int /\ 1 \in Int
      OBVIOUS
    <3> QED
      BY <3>1, FS_Interval
  <2> QED
    BY <1>1, <2>1
<1>7. Cardinality(1..Len(s)) <= Cardinality(1..npc)
  <2> HIDE DEF f
  <2> QED BY <1>5, <1>6, FS_Injection
<1> QED
  BY <1>6, <1>7 DEF s

\* There are at most n of those.
LEMMA AskedFinite ==
    ASSUME NEW c, NEW n \in Nat
    PROVE  /\ IsFiniteSet(Asked(c, n)) /\ Cardinality(Asked(c, n)) \in 0..n
<1>1. IsFiniteSet(1..n) /\ Cardinality(1..n) = n
  BY FS_Interval
<1>2. Asked(c, n) \in SUBSET (1..n)
  BY DEF Asked
<1>3. IsFiniteSet(Asked(c, n)) /\ Cardinality(Asked(c, n)) <= n
  BY <1>1, <1>2, FS_Subset
<1> QED
  BY <1>3, FS_CardinalityType

\* More of them, and one more.
LEMMA AskedGrows ==
    ASSUME NEW c, NEW n \in Nat, NEW d, NEW m \in Nat, Asked(c, n) \subseteq Asked(d, m)
    PROVE  /\ Cardinality(Asked(c, n)) <= Cardinality(Asked(d, m))
           /\ \A h \in Asked(d, m) \ Asked(c, n) :
                  Cardinality(Asked(c, n)) + 1 <= Cardinality(Asked(d, m))
<1> DEFINE C == Asked(c, n)
           D == Asked(d, m)
<1>1. IsFiniteSet(C) /\ IsFiniteSet(D) /\ Cardinality(C) \in Nat /\ Cardinality(D) \in Nat
  BY AskedFinite
<1>2. C \subseteq D
  OBVIOUS
<1> HIDE DEF C, D
<1>3. Cardinality(C) <= Cardinality(D)
  BY <1>1, <1>2, FS_Subset
<1>4. ASSUME NEW h \in D \ C PROVE Cardinality(C) + 1 <= Cardinality(D)
  <2>1. Cardinality(C \cup {h}) = Cardinality(C) + 1
    BY <1>1, <1>4, FS_AddElement
  <2>2. C \cup {h} \in SUBSET D
    BY <1>2
  <2>3. Cardinality(C \cup {h}) <= Cardinality(D)
    BY <1>1, <2>2, FS_Subset
  <2> QED
    BY <2>1, <2>3
<1> QED
  BY <1>3, <1>4 DEF C, D

\* The first operation of p's chain, of handler h, is over; h has at most one
\* more, which is o on the global pc.
Moves(p, h, o) ==
    /\ chain[p] # <<>> /\ h = chain[p][1].by /\ o.by = h
    /\ \/ chain' = Rest(p)
       \/ pc \in Pc /\ chain' = [Rest(p) EXCEPT ![pc] = Append(@, o)]

\* Whose operations are left when a chain moves on.
LEMMA MovesKeep ==
    ASSUME NEW K, chain \in [Pc -> Seq(K)], OneEach(chain), NEW p \in Pc, NEW h,
           NEW o \in K, Moves(p, h, o)
    PROVE  /\ chain' \in [Pc -> Seq(K)] /\ OneEach(chain')
           /\ \A g : Owns(chain', g) => Owns(chain, g)
           /\ \A g : Asks(chain', g) =>
                        (Asks(chain, g) /\ g # h) \/ (g = h /\ o.op # "setLocal")
<1> DEFINE d == Rest(p)
<1>1. /\ chain[p] # <<>> /\ h = chain[p][1].by /\ d \in [Pc -> Seq(K)]
      /\ d[p] = Tail(chain[p]) /\ \A q \in Pc : q # p => d[q] = chain[q]
  BY DEF Rest, Moves
<1> HIDE DEF d
<1>2. /\ OneEach(d) /\ ~Owns(d, h)
      /\ \A g : Owns(d, g) => Owns(chain, g)
      /\ \A g : Asks(d, g) => Asks(chain, g)
  BY <1>1, RestOwners
<1>3. Owns(chain, h)
  <2>1. 1 \in 1..Len(chain[p])
    BY <1>1
  <2> QED
    BY <1>1, <2>1 DEF Owns
<1>4. ASSUME NEW g, Asks(d, g) PROVE g # h
  BY <1>2, <1>4 DEF Asks, Owns
<1>5. CASE chain' = d
  BY <1>1, <1>2, <1>4, <1>5
<1>6. CASE pc \in Pc /\ chain' = [d EXCEPT ![pc] = Append(@, o)]
  <2>1. o.by = h
    BY DEF Moves
  <2>2. chain' \in [Pc -> Seq(K)] /\ Longer(d, chain', pc, o)
    BY <1>1, <1>6 DEF Longer
  <2>3. /\ OneEach(chain')
        /\ \A g : Owns(chain', g) => Owns(d, g) \/ g = o.by
        /\ \A g : Asks(chain', g) => Asks(d, g) \/ (g = o.by /\ o.op # "setLocal")
    <3>1. PICK e : e = chain'
      OBVIOUS
    <3>2. PICK q \in Pc : q = pc
      BY <1>6
    <3>3. PICK c : c = d
      OBVIOUS
    <3>4. OneEach(c) /\ ~Owns(c, o.by) /\ Longer(c, e, q, o)
      BY <1>2, <2>1, <2>2, <3>1, <3>2, <3>3, Zenon
    <3>5. /\ OneEach(e)
          /\ \A g : Owns(e, g) => Owns(c, g) \/ g = o.by
          /\ \A g : Asks(e, g) => Asks(c, g) \/ (g = o.by /\ o.op # "setLocal")
      BY <3>4, AppendOwners
    <3> QED
      BY <3>1, <3>3, <3>5, Zenon
  <2> QED
    BY <1>2, <1>3, <1>4, <2>1, <2>2, <2>3
<1> QED
  BY <1>5, <1>6 DEF Moves, d

\* The three steps of a connection as moves of its chain.  This one is
\* setRemoteDescription: the handler goes on with createAnswer.
LEMMA RemoteMoves ==
    ASSUME NEW p \in Pc, pc \in 0..MaxPc, chain \in [Pc -> Seq(AnyOp)], RemoteSet(p)
    PROVE  /\ chain[p][1].by \in Pc /\ chain[p][1].op = "setRemote" /\ chain[p] # <<>>
           /\ Moves(p, chain[p][1].by, [by |-> chain[p][1].by, op |-> "createAnswer"])
           /\ made' = made
<1>1. /\ chain[p] # <<>> /\ chain[p][1].op = "setRemote" /\ Head(chain[p]) = chain[p][1]
      /\ Await(chain[p][1].by, [by |-> chain[p][1].by, op |-> "createAnswer"], Rest(p))
      /\ made' = made
  BY DEF RemoteSet, Running
<1>2. chain[p][1] \in AnyOp
  BY <1>1
<1>3. chain[p][1].by \in Pc
  BY <1>2 DEF AnyOp
<1> DEFINE h == chain[p][1].by
           o == [by |-> h, op |-> "createAnswer"]
<1>4. chain' = Rest(p) \/ (pc \in Pc /\ chain' = [Rest(p) EXCEPT ![pc] = Append(@, o)])
  <2> HIDE DEF h
  <2>1. Await(h, o, Rest(p))
    BY <1>1 DEF h
  <2>2. pc # 0 => pc \in Pc
    BY ConsoleAssumption DEF Pc
  <2> HIDE DEF o
  <2> QED
    BY <2>1, <2>2 DEF Await
<1>5. o.by = h
  OBVIOUS
<1> QED
  BY <1>1, <1>3, <1>4, <1>5 DEF Moves

\* createAnswer: the handler goes on with its answer, or it fails.
LEMMA AnswerMoves ==
    ASSUME NEW p \in Pc, pc \in 0..MaxPc, chain \in [Pc -> Seq(AnyOp)], AnswerCreated(p)
    PROVE  /\ chain[p][1].by \in Pc /\ chain[p][1].op = "createAnswer" /\ chain[p] # <<>>
           /\ Moves(p, chain[p][1].by,
                    [by |-> chain[p][1].by, op |-> "setLocal",
                     answer |-> [pc |-> p, n |-> made[p] + 1]])
           /\ \/ made' = [made EXCEPT ![p] = @ + 1]
              \/ made' = made /\ chain' = Rest(p)
<1>1. /\ chain[p] # <<>> /\ chain[p][1].op = "createAnswer" /\ Head(chain[p]) = chain[p][1]
  BY DEF AnswerCreated, Running
<1>2. chain[p][1] \in AnyOp
  BY <1>1
<1>3. chain[p][1].by \in Pc
  BY <1>2 DEF AnyOp
<1> DEFINE h == chain[p][1].by
           o == [by |-> h, op |-> "setLocal", answer |-> [pc |-> p, n |-> made[p] + 1]]
<1>4. o.by = h
  OBVIOUS
<1>5. CASE sig[p] = "have-remote-offer"
  <2>1. Await(h, o, Rest(p)) /\ made' = [made EXCEPT ![p] = @ + 1]
    BY <1>1, <1>5 DEF AnswerCreated
  <2>2. pc # 0 => pc \in Pc
    BY ConsoleAssumption DEF Pc
  <2> HIDE DEF o, h
  <2>3. chain' = Rest(p) \/ (pc \in Pc /\ chain' = [Rest(p) EXCEPT ![pc] = Append(@, o)])
    BY <2>1, <2>2 DEF Await
  <2> QED
    BY <1>1, <1>3, <1>4, <2>1, <2>3 DEF Moves, o, h
<1>6. CASE sig[p] # "have-remote-offer"
  <2>1. chain' = Rest(p) /\ made' = made
    BY <1>6 DEF AnswerCreated, Fail
  <2> QED
    BY <1>1, <1>3, <1>4, <2>1 DEF Moves
<1> QED
  BY <1>5, <1>6

\* setLocalDescription is a handler's last operation.
LEMMA LocalMoves ==
    ASSUME NEW p \in Pc, chain \in [Pc -> Seq(AnyOp)], LocalSet(p)
    PROVE  /\ chain[p][1].by \in Pc /\ chain[p] # <<>> /\ chain[p][1] \in AnyOp
           /\ Head(chain[p]) = chain[p][1]
           /\ chain' = Rest(p) /\ made' = made
<1>1. /\ chain[p] # <<>> /\ chain' = Rest(p) /\ made' = made
  BY DEF LocalSet, Running, Fail
<1>2. chain[p][1] \in AnyOp /\ Head(chain[p]) = chain[p][1]
  BY <1>1
<1> QED
  BY <1>1, <1>2 DEF AnyOp

\* A step that starts no handler and lets one of them at most get its answer.
LEMMA MadeKeeps ==
    ASSUME MadeInv, NEW n \in Nat, n = npc, NEW m \in Nat, m = npc',
           \A p \in Pc : made[p] \in Nat, made' = made,
           Asked(chain, npc) \subseteq Asked(chain', npc')
    PROVE  MadeInv'
<1>1. PICK c : c = chain
  OBVIOUS
<1>2. PICK d : d = chain'
  OBVIOUS
<1>3. Asked(c, n) \subseteq Asked(d, m)
  BY <1>1, <1>2, Zenon
<1>4. /\ Cardinality(Asked(c, n)) <= Cardinality(Asked(d, m))
      /\ Cardinality(Asked(c, n)) \in Nat /\ Cardinality(Asked(d, m)) \in Nat
  <2>1. Cardinality(Asked(c, n)) \in 0..n /\ Cardinality(Asked(d, m)) \in 0..m
    BY AskedFinite
  <2> QED
    BY <1>3, <2>1, AskedGrows
<1>5. \A p \in Pc : made[p] <= Cardinality(Asked(c, n))
  BY <1>1, Zenon DEF MadeInv
<1>6. \A p \in Pc : made[p] <= Cardinality(Asked(d, m))
  BY <1>4, <1>5
<1>7. \A p \in Pc : made'[p] <= Cardinality(Asked(chain', npc'))
  BY <1>6, <1>2, Zenon
<1> QED
  BY <1>7, Zenon DEF MadeInv

\* Operations of a handler that was started, with an answer or without.
LEMMA Ops ==
    ASSUME NEW h \in Pc
    PROVE  /\ [by |-> h, op |-> "setRemote"] \in Op
           /\ [by |-> h, op |-> "createAnswer"] \in Op
           /\ \A p \in Pc, n \in Nat :
                  LET o == [by |-> h, op |-> "setLocal", answer |-> [pc |-> p, n |-> n]]
                  IN  o \in AnyOp /\ (n \in 1..(MaxPc * MaxPc) => o \in Op)
  BY DEF Op, AnyOp, Answer

\* Every operation of the model is one of those with any number of answers.
LEMMA OpIsAnyOp == Op \subseteq AnyOp
<1>1. Answer \subseteq [pc : Pc, n : Nat]
  BY ConsoleAssumption DEF Answer, Pc
<1> QED
  BY <1>1 DEF Op, AnyOp

\* A number up to MaxPc is one up to its square.
LEMMA Square ==
    ASSUME NEW n \in 1..MaxPc
    PROVE  n \in 1..(MaxPc * MaxPc)
<1>1. MaxPc \in Nat /\ MaxPc >= 1
  BY ConsoleAssumption
<1>2. MaxPc * MaxPc \in Nat /\ MaxPc * MaxPc >= MaxPc
  BY <1>1
<1> QED
  BY <1>1, <1>2

\* An offer's handler starts with an operation of its own.
LEMMA OwnersOffer ==
    ASSUME AnswersInv, OwnersInv, MadeInv, OnOffer
    PROVE  OwnersInv' /\ MadeInv'
<1>1. /\ npc \in Nat /\ MaxPc \in Nat /\ npc' = npc + 1 /\ npc' \in Pc
      /\ made' = made /\ \A p \in Pc : made[p] \in Nat
  <2>1. npc \in Nat /\ MaxPc \in Nat
    BY Numbers DEF AnswersInv
  <2>2. \A p \in Pc : made[p] \in Nat
    BY DEF AnswersInv, PageTypes
  <2> QED
    BY <2>1, <2>2 DEF OnOffer, Pc
<1>2. PICK h \in Pc : h = npc'
  BY <1>1
<1> DEFINE o == [by |-> h, op |-> "setRemote"]
<1>3. chain[h] = <<>>
  BY <1>1, <1>2 DEF AnswersInv, Unmade, Pc
<1>4. chain' = [chain EXCEPT ![h] = <<o>>]
  BY <1>2 DEF OnOffer
<1>5. o \in Op /\ o.by = h
  BY Ops
<1>6. ~Owns(chain, h)
  BY <1>1, <1>2 DEF OwnersInv
<1> HIDE DEF o
<1>7. chain \in [Pc -> Seq(Op)] /\ OneEach(chain)
  BY DEF OwnersInv
<1>8. PICK c : c = chain
  OBVIOUS
<1>9. PICK d : d = chain'
  OBVIOUS
<1>10. d = [c EXCEPT ![h] = <<o>>] /\ c[h] = <<>> /\ c \in [Pc -> Seq(Op)]
  BY <1>3, <1>4, <1>7, <1>8, <1>9, Zenon
<1>11. d \in [Pc -> Seq(Op)] /\ Longer(c, d, h, o)
  <2>1. d[h] = <<o>> /\ \A q \in Pc : q # h => d[q] = c[q]
    BY <1>10
  <2>2. Len(c[h]) = 0 /\ Len(<<o>>) = 1 /\ <<o>>[1] = o /\ <<o>> \in Seq(Op)
    BY <1>5, <1>10
  <2>3. \A q \in Pc : Len(c[q]) \in Nat
    BY <1>10
  <2>4. d \in [Pc -> Seq(Op)]
    BY <1>10, <2>2
  <2> QED
    BY <2>1, <2>2, <2>3, <2>4 DEF Longer
<1>12. OneEach(c) /\ ~Owns(c, o.by)
  BY <1>5, <1>6, <1>7, <1>8, Zenon
<1>13. /\ OneEach(d)
       /\ \A g : Owns(d, g) => Owns(c, g) \/ g = o.by
       /\ \A g : Asks(d, g) => Asks(c, g) \/ (g = o.by /\ o.op # "setLocal")
  BY <1>11, <1>12, AppendOwners
<1>14. OwnersInv'
  <2>1. \A g \in Pc : Owns(d, g) => g <= npc'
    BY <1>1, <1>2, <1>5, <1>8, <1>13 DEF OwnersInv, Pc
  <2> QED
    BY <1>9, <1>11, <1>13, <2>1, Zenon DEF OwnersInv
<1>15. Asked(chain, npc) \subseteq Asked(chain', npc')
  <2>1. Asked(c, npc) \subseteq Asked(d, npc')
    BY <1>1, <1>2, <1>5, <1>13 DEF Asked
  <2> QED
    BY <2>1, <1>8, <1>9, Zenon
<1>16. MadeInv'
  <2>1. npc' \in Nat
    BY <1>1
  <2> QED
    BY <1>1, <2>1, <1>15, MadeKeeps
<1> QED
  BY <1>14, <1>16

\* The end of an operation leaves every other handler its own.
LEMMA OwnersPc ==
    ASSUME AnswersInv, OwnersInv, MadeInv, NEW p \in Pc,
           RemoteSet(p) \/ AnswerCreated(p) \/ LocalSet(p)
    PROVE  OwnersInv' /\ MadeInv'
<1>1. /\ npc \in Nat /\ MaxPc \in Nat /\ npc <= MaxPc /\ npc' = npc
      /\ made \in [Pc -> Nat]
      /\ pc \in 0..MaxPc /\ chain \in [Pc -> Seq(AnyOp)]
  BY Numbers DEF AnswersInv, RemoteComesFirst, ChainsOK, PageTypes, RemoteSet, AnswerCreated,
     LocalSet
<1>2. chain \in [Pc -> Seq(Op)] /\ OneEach(chain) /\ \A g \in Pc : Owns(chain, g) => g <= npc
  BY DEF OwnersInv
\* Enough: what MovesKeep says, and the type.
<1>3. ASSUME OneEach(chain'), \A g : Owns(chain', g) => Owns(chain, g),
             chain' \in [Pc -> Seq(Op)]
      PROVE  OwnersInv'
  BY <1>1, <1>2, <1>3, Zenon DEF OwnersInv
<1>4. chain[p] # <<>> => Rest(p) \in [Pc -> Seq(Op)]
  BY <1>2 DEF Rest
<1>5. chain[p] # <<>> => /\ chain[p][1] \in Op /\ chain[p][1].by \in Pc
                         /\ Owns(chain, chain[p][1].by)
                         /\ chain[p][1].op # "setLocal" => Asks(chain, chain[p][1].by)
  <2> HAVE chain[p] # <<>>
  <2>1. 1 \in 1..Len(chain[p]) /\ chain[p][1] \in Op
    BY <1>2
  <2>2. chain[p][1].by \in Pc
    BY <2>1 DEF Op
  <2> QED
    BY <2>1, <2>2 DEF Owns, Asks
<1>6. PICK h : h = chain[p][1].by
  OBVIOUS
<1>7. CASE RemoteSet(p)
  <2> DEFINE o == [by |-> h, op |-> "createAnswer"]
  <2>1. /\ h \in Pc /\ chain[p][1].op = "setRemote" /\ chain[p] # <<>>
        /\ Moves(p, h, o) /\ made' = made
    BY <1>1, <1>6, <1>7, RemoteMoves, Zenon
  <2>2. o \in Op
    BY <2>1, Ops
  <2> HIDE DEF o
  <2>3. /\ chain' \in [Pc -> Seq(Op)] /\ OneEach(chain')
        /\ \A g : Owns(chain', g) => Owns(chain, g)
        /\ \A g : Asks(chain', g) => (Asks(chain, g) /\ g # h) \/ (g = h /\ o.op # "setLocal")
    BY <1>2, <2>1, <2>2, MovesKeep, Zenon
  <2>4. Asks(chain, h)
    BY <1>5, <1>6, <2>1
  <2>5. Asked(chain, npc) \subseteq Asked(chain', npc')
    BY <1>1, <2>3, <2>4 DEF Asked
  <2>6. MadeInv'
    BY <1>1, <2>1, <2>5, MadeKeeps
  <2> QED
    BY <1>3, <2>3, <2>6
<1>8. CASE AnswerCreated(p)
  <2> DEFINE o == [by |-> h, op |-> "setLocal", answer |-> [pc |-> p, n |-> made[p] + 1]]
  <2>1. /\ h \in Pc /\ chain[p][1].op = "createAnswer" /\ chain[p] # <<>>
        /\ Moves(p, h, o)
        /\ \/ made' = [made EXCEPT ![p] = @ + 1]
           \/ made' = made /\ chain' = Rest(p)
    BY <1>1, <1>6, <1>8, AnswerMoves, Zenon
  <2>2. made[p] + 1 \in Nat
    BY <1>1
  <2>3. o \in AnyOp /\ (made[p] + 1 \in 1..(MaxPc * MaxPc) => o \in Op) /\ o.op = "setLocal"
    BY <2>1, <2>2, Ops
  <2> HIDE DEF o
  <2>4. /\ OneEach(chain')
        /\ \A g : Owns(chain', g) => Owns(chain, g)
        /\ \A g : Asks(chain', g) => (Asks(chain, g) /\ g # h) \/ (g = h /\ o.op # "setLocal")
    BY <1>1, <1>2, <2>1, <2>3, MovesKeep, Zenon
  <2>5. Asked(chain, npc) \subseteq Asked(chain', npc')
    BY <1>1, <2>3, <2>4 DEF Asked
  <2>6. h \in Asked(chain', npc') \ Asked(chain, npc)
    <3>1. Asks(chain, h) /\ Owns(chain, h) /\ ~Asks(chain', h)
      BY <1>5, <1>6, <2>1, <2>3, <2>4
    <3>2. h \in 1..npc'
      BY <1>1, <1>2, <2>1, <3>1 DEF Pc
    <3> QED
      BY <3>1, <3>2 DEF Asked
  <2>7. CASE made' = made /\ chain' = Rest(p)
    <3>1. MadeInv'
      BY <1>1, <2>5, <2>7, MadeKeeps
    <3> QED
      BY <1>3, <1>4, <2>1, <2>4, <2>7, <3>1
  <2>8. CASE made' = [made EXCEPT ![p] = @ + 1]
    <3>1. PICK c : c = chain
      OBVIOUS
    <3>2. PICK d : d = chain'
      OBVIOUS
    <3>3. PICK n \in Nat : n = npc
      BY <1>1
    <3>4. Asked(c, n) \subseteq Asked(d, n) /\ h \in Asked(d, n) \ Asked(c, n)
      BY <1>1, <2>5, <2>6, <3>1, <3>2, <3>3, Zenon
    <3>5. /\ Cardinality(Asked(c, n)) + 1 <= Cardinality(Asked(d, n))
          /\ Cardinality(Asked(c, n)) \in Nat /\ Cardinality(Asked(d, n)) \in 0..n
      BY <3>4, AskedGrows, AskedFinite
    <3>6. \A q \in Pc : made[q] <= Cardinality(Asked(c, n))
      BY <3>1, <3>3, Zenon DEF MadeInv
    <3>7. \A q \in Pc : made'[q] <= Cardinality(Asked(d, n))
      BY <1>1, <2>8, <3>5, <3>6
    <3>8. MadeInv'
      BY <1>1, <3>2, <3>3, <3>7, Zenon DEF MadeInv
    <3>9. made[p] + 1 \in 1..MaxPc
      BY <1>1, <3>3, <3>5, <3>6
    <3>10. o \in Op
      BY <2>3, <3>9, Square
    <3>11. chain' \in [Pc -> Seq(Op)]
      BY <1>2, <2>1, <3>10, MovesKeep, Zenon
    <3> QED
      BY <1>3, <2>4, <3>8, <3>11
  <2> QED
    BY <2>1, <2>7, <2>8
<1>9. CASE LocalSet(p)
  <2>0. PICK o : o = chain[p][1]
    OBVIOUS
  <2>1. /\ h \in Pc /\ chain[p] # <<>> /\ chain' = Rest(p) /\ made' = made
    BY <1>1, <1>6, <1>9, LocalMoves, Zenon
  <2>2. o.op = "setLocal" /\ o \in Op /\ o.by = h
    BY <1>2, <1>5, <1>6, <1>9, <2>0, <2>1 DEF LocalSet, Running
  <2>3. Moves(p, h, o)
    BY <1>6, <2>1, <2>2, Zenon DEF Moves
  <2>4. /\ chain' \in [Pc -> Seq(Op)] /\ OneEach(chain')
        /\ \A g : Owns(chain', g) => Owns(chain, g)
        /\ \A g : Asks(chain', g) => (Asks(chain, g) /\ g # h) \/ (g = h /\ o.op # "setLocal")
    <3>1. o \in Op
      BY <2>2
    <3> QED
      BY <1>2, <2>3, <3>1, MovesKeep, Zenon
  <2>5. Asked(chain, npc) \subseteq Asked(chain', npc')
    BY <1>1, <2>2, <2>4 DEF Asked
  <2>6. MadeInv'
    BY <1>1, <2>1, <2>5, MadeKeeps
  <2> QED
    BY <1>3, <2>4, <2>6
<1> QED
  BY <1>7, <1>8, <1>9

\* An answer goes over a socket that was opened.
LEMMA SockStep ==
    ASSUME AnswersInv, SockInv, [Next]_vars
    PROVE  SockInv'
<1> USE ConsoleAssumption DEF SockInv
<1>0. /\ answers \in Seq([pc : Pc, by : Pc, via : Nat]) /\ Len(answers) \in Nat
      /\ npc \in Nat /\ npc <= MaxPc
      /\ chain \in [Pc -> Seq(AnyOp)]
  BY Numbers DEF AnswersInv, PageTypes, RemoteComesFirst, ChainsOK
<1>1. CASE UNCHANGED <<sockVars, over, answers>>
  BY <1>1 DEF sockVars
<1>2. ASSUME \/ (\E p \in Pc : RemoteSet(p))
             \/ (\E p \in Pc : AnswerCreated(p))
             \/ AgentAccepts \/ Connected \/ NextRound
      PROVE  UNCHANGED <<sockVars, over, answers>>
  BY <1>2 DEF RemoteSet, AnswerCreated, AgentAccepts, Connected, NextRound, pageVars, peerVars
<1>3. CASE ConnectToAgent
  <2>1. ws' = nws + 1 /\ nws' = nws + 1 /\ nws < MaxWs /\ wsState' = "connecting"
        /\ over' = over /\ answers' = answers
    BY <1>3 DEF ConnectToAgent
  <2> QED
    BY <2>1
<1>4. CASE WsOpen \/ WsClose \/ Disconnect
  BY <1>4 DEF WsOpen, WsClose, Disconnect, peerVars
<1>5. CASE OnOffer
  BY <1>5 DEF OnOffer, sockVars
<1>6. CASE \E p \in Pc : LocalSet(p)
  <2> PICK p \in Pc : LocalSet(p)
    BY <1>6
  <2>1. UNCHANGED <<sockVars, over>>
    BY DEF LocalSet
  <2> DEFINE a == [pc |-> p, by |-> Head(chain[p]).by, via |-> ws]
  <2>2. answers' = answers \/ (answers' = Append(answers, a) /\ wsState = "open")
    BY DEF LocalSet, SendAnswer
  <2>3. a.via = ws
    OBVIOUS
  <2> HIDE DEF a
  <2>4. CASE answers' = Append(answers, a) /\ wsState = "open"
    <3>1. /\ Len(answers') = Len(answers) + 1 /\ answers'[Len(answers) + 1] = a
          /\ \A i \in 1..Len(answers) : answers'[i] = answers[i]
      BY <1>0, <2>4
    <3>2. ws \in 1..MaxWs
      BY <2>4
    <3>3. \A i \in 1..Len(answers') : i \in 1..Len(answers) \/ i = Len(answers) + 1
      BY <1>0, <3>1
    <3>4. \A i \in 1..Len(answers') : answers'[i].via \in 1..MaxWs
      BY <2>3, <3>1, <3>2, <3>3
    <3> QED
      BY <2>1, <3>4 DEF sockVars
  <2> QED
    BY <1>1, <2>1, <2>2, <2>4
<1>7. CASE UNCHANGED vars
  BY <1>1, <1>7 DEF vars
<1> QED
  BY <1>1, <1>2, <1>3, <1>4, <1>5, <1>6, <1>7, StepCases

\* The agent takes answers of connections the page has made.
LEMMA AgentStep ==
    ASSUME AnswersInv, AgentInv, [Next]_vars
    PROVE  AgentInv'
<1> USE ConsoleAssumption DEF AgentInv
<1>0. /\ answers \in Seq([pc : Pc, by : Pc, via : Nat]) /\ Len(answers) \in Nat
      /\ npc \in Nat /\ npc <= MaxPc
      /\ \A i \in 1..Len(answers) : answers[i].pc \in 1..npc
  <2>1. npc \in Nat /\ npc <= MaxPc /\ Len(answers) \in Nat
        /\ \A i \in 1..Len(answers) : answers[i].pc \in 1..MaxPc
    BY Numbers DEF AnswersInv
  <2>2. \A i \in 1..Len(answers) : answers[i].pc <= npc
    BY DEF AnswersInv, Unmade
  <2>3. \A i \in 1..Len(answers) : answers[i].pc \in 1..npc
    BY <2>1, <2>2
  <2> QED
    BY <2>1, <2>3 DEF AnswersInv, PageTypes
<1>1. CASE UNCHANGED <<npc, dc, offer, handler, answers, taken, round, accepted>>
  BY <1>1
<1>2. ASSUME WsOpen \/ WsClose
      PROVE  UNCHANGED <<npc, dc, offer, handler, answers, taken, round, accepted>>
  BY <1>2 DEF WsOpen, WsClose, peerVars, agentVars
<1>3. CASE ConnectToAgent \/ Disconnect
  BY <1>0, <1>3 DEF ConnectToAgent, Disconnect, CloseAll, agentVars
<1>4. CASE OnOffer
  BY <1>0, <1>4 DEF OnOffer, agentVars, Pc
<1>5. CASE \E p \in Pc : RemoteSet(p) \/ AnswerCreated(p)
  <2> PICK p \in Pc : RemoteSet(p) \/ AnswerCreated(p)
    BY <1>5
  <2>1. UNCHANGED <<npc, dc, offer, answers, taken, round, accepted>>
    BY DEF RemoteSet, AnswerCreated, agentVars
  <2>2. handler' = handler \/ \E h : handler' = [handler EXCEPT ![h] = "failed"]
    BY DEF RemoteSet, AnswerCreated, Await, Fail
  <2>3. handler' \in [Pc -> {"none", "waits", "sent", "failed"}]
    BY <2>2
  <2> QED
    BY <2>1, <2>3
<1>6. CASE \E p \in Pc : LocalSet(p)
  <2> PICK p \in Pc : LocalSet(p)
    BY <1>6
  <2>1. UNCHANGED <<npc, dc, offer, taken, round, accepted>>
    BY DEF LocalSet, agentVars
  <2>2. \E h, to : to \in {"sent", "failed"} /\ handler' = [handler EXCEPT ![h] = to]
    BY DEF LocalSet, Fail
  <2>3. handler' \in [Pc -> {"none", "waits", "sent", "failed"}]
    BY <2>2
  <2>4. answers' = answers \/ \E a : answers' = Append(answers, a)
    BY DEF LocalSet, SendAnswer
  <2>5. Len(answers') \in Nat /\ Len(answers') >= Len(answers)
    BY <1>0, <2>4
  <2> QED
    BY <1>0, <2>1, <2>3, <2>5
<1>7. CASE AgentAccepts
  <2>1. /\ taken < Len(answers) /\ taken' = taken + 1
        /\ accepted' = answers[taken'].pc \/ accepted' = 0
        /\ UNCHANGED <<npc, dc, offer, handler, answers, round>>
    BY <1>7 DEF AgentAccepts, pageVars, peerVars
  <2>2. taken' \in 1..Len(answers)
    BY <1>0, <2>1
  <2>3. answers[taken'].pc \in 1..npc
    BY <1>0, <2>2
  <2>4. accepted' \in 0..npc
    BY <1>0, <2>1, <2>3
  <2>5. taken' \in 0..Len(answers')
    BY <1>0, <2>1, <2>2
  <2>6. dc' \in 0..npc' /\ accepted' \in 0..npc'
    BY <2>1, <2>4
  <2> QED
    BY <2>1, <2>5, <2>6, Zenon DEF AgentInv
<1>8. CASE Connected
  BY <1>8 DEF Connected, peerVars
<1>9. CASE NextRound
  BY <1>0, <1>9 DEF NextRound, pageVars, peerVars
<1>10. CASE UNCHANGED vars
  BY <1>1, <1>10 DEF vars
<1> QED
  BY <1>1, <1>2, <1>3, <1>4, <1>5, <1>6, <1>7, <1>8, <1>9, <1>10, StepCases

\* The flag of the agent stays Boolean.
LEMMA LinkedStep ==
    ASSUME linked \in BOOLEAN, [Next]_vars
    PROVE  linked' \in BOOLEAN
<1>1. ASSUME \/ ConnectToAgent \/ WsOpen \/ WsClose \/ Disconnect \/ OnOffer
             \/ (\E p \in Pc : RemoteSet(p))
             \/ (\E p \in Pc : AnswerCreated(p))
             \/ (\E p \in Pc : LocalSet(p))
             \/ AgentAccepts \/ UNCHANGED vars
      PROVE  linked' = linked
  BY <1>1 DEF ConnectToAgent, WsOpen, WsClose, Disconnect, OnOffer, RemoteSet, AnswerCreated,
     LocalSet, AgentAccepts, agentVars, vars
<1>2. CASE Connected \/ NextRound
  BY <1>2, Zenon DEF Connected, NextRound
<1> QED
  BY <1>1, <1>2, StepCases, Zenon

\* What TypeOK follows from.
ConsoleInv == OwnersInv /\ MadeInv /\ SockInv /\ AgentInv /\ linked \in BOOLEAN

\* Every step of the page and of the agent keeps it.
LEMMA ConsoleStep ==
    ASSUME AnswersInv, ConsoleInv, [Next]_vars
    PROVE  ConsoleInv'
<1>1. ASSUME UNCHANGED <<chain, made, npc>>
      PROVE  OwnersInv' /\ MadeInv'
  BY <1>1, Zenon DEF ConsoleInv, OwnersInv, MadeInv, Asked
<1>2. ASSUME \/ ConnectToAgent \/ WsOpen \/ WsClose \/ Disconnect
             \/ AgentAccepts \/ Connected \/ NextRound \/ UNCHANGED vars
      PROVE  UNCHANGED <<chain, made, npc>>
  BY <1>2 DEF ConnectToAgent, WsOpen, WsClose, Disconnect, AgentAccepts, Connected, NextRound,
     pageVars, peerVars, vars
<1>3. ASSUME OnOffer PROVE OwnersInv' /\ MadeInv'
  BY <1>3, OwnersOffer DEF ConsoleInv
<1>4. ASSUME \E p \in Pc : RemoteSet(p) \/ AnswerCreated(p) \/ LocalSet(p)
      PROVE  OwnersInv' /\ MadeInv'
  BY <1>4, OwnersPc DEF ConsoleInv
<1>5. OwnersInv' /\ MadeInv'
  BY <1>1, <1>2, <1>3, <1>4, StepCases, Zenon
<1>6. SockInv' /\ AgentInv'
  BY SockStep, AgentStep, Zenon DEF ConsoleInv
<1>7. linked' \in BOOLEAN
  BY LinkedStep, Zenon DEF ConsoleInv
<1> QED
  BY <1>5, <1>6, <1>7, Zenon DEF ConsoleInv

\* Every variable of the page keeps its type: in particular a connection never
\* has more operations waiting than offers came, because a handler awaits one
\* promise at a time, and never makes more answers than handlers asked for one,
\* however the handlers of the offers mix on the global pc.
THEOREM TypeCorrect == Spec => []TypeOK
<1>1. Init => ConsoleInv
  <2> SUFFICES ASSUME Init PROVE ConsoleInv
    OBVIOUS
  <2> USE ConsoleAssumption
  <2>1. chain = [p \in Pc |-> <<>>] /\ npc = 0 /\ made = [p \in Pc |-> 0] /\ linked = FALSE
    BY DEF Init
  <2>2. \A p \in Pc : Len(chain[p]) = 0
    BY <2>1
  <2>3. OwnersInv
    <3>1. chain \in [Pc -> Seq(Op)]
      BY <2>1
    <3> QED
      BY <2>2, <3>1 DEF OwnersInv, OneEach, Owns
  <2>4. MadeInv
    BY <2>1, AskedFinite DEF MadeInv
  <2>5. SockInv
    BY DEF Init, SockInv
  <2>6. AgentInv
    BY DEF Init, AgentInv
  <2> QED
    BY <2>1, <2>3, <2>4, <2>5, <2>6, Zenon DEF ConsoleInv
<1>2. AnswersInv /\ ConsoleInv => TypeOK
  <2> SUFFICES ASSUME AnswersInv, ConsoleInv PROVE TypeOK
    OBVIOUS
  <2>1. /\ npc \in Nat /\ npc <= MaxPc /\ MaxPc \in Nat /\ npc \in 0..MaxPc /\ pc \in 0..npc
        /\ sig \in [Pc -> {"stable", "have-remote-offer", "answered", "closed"}]
        /\ made \in [Pc -> Nat] /\ answers \in Seq([pc : Pc, by : Pc, via : Nat])
    BY Numbers DEF AnswersInv, PageTypes, SigState
  <2>2. \A p \in Pc : chain[p] \in Seq(Op) /\ Len(chain[p]) <= npc
    BY <2>1, ChainBound DEF ConsoleInv, OwnersInv
  <2>3. made \in [Pc -> 0..MaxPc]
    <3>1. \A p \in Pc : made[p] <= Cardinality(Asked(chain, npc))
      BY DEF ConsoleInv, MadeInv
    <3>2. Cardinality(Asked(chain, npc)) \in 0..npc
      BY <2>1, AskedFinite
    <3> QED
      BY <2>1, <3>1, <3>2
  <2>4. \A i \in 1..Len(answers) : answers[i] \in [pc : Pc, by : Pc, via : 1..MaxWs]
    <3>1. \A i \in 1..Len(answers) : answers[i] \in [pc : Pc, by : Pc, via : Nat]
      <4> DEFINE R == [pc : Pc, by : Pc, via : Nat]
      <4>1. answers \in Seq(R)
        BY <2>1
      <4>2. \A i \in 1..Len(answers) : answers[i] \in R
        <5> HIDE DEF R
        <5> QED
          BY <4>1
      <4> QED
        BY <4>2
    <3>2. \A i \in 1..Len(answers) : answers[i].via \in 1..MaxWs
      BY DEF ConsoleInv, SockInv
    <3> QED
      BY <3>1, <3>2
  <2> QED
    BY <2>1, <2>2, <2>3, <2>4, Zenon DEF ConsoleInv, SockInv, AgentInv, TypeOK
<1> QED
  BY <1>1, <1>2, ConsoleStep, AnswersHold, PTL DEF Spec

=============================================================================
