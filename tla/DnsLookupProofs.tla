--------------------------- MODULE DnsLookupProofs ---------------------------
(***************************************************************************)
(* A lookup that fails has a reason to, and nobody who shares a flight is   *)
(* left out of its result: for any callers and any number of nameservers.   *)
(***************************************************************************)
EXTENDS DnsLookup, TLAPS

\* Zenon proves the leaves, unless they name another backend.
USE ZenonT(30)

Types ==
    /\ servers \in Nat
    /\ pc \in [Caller -> {"idle", "v4", "v6", "addrs", "empty", "error"}]
    /\ sub \in [Caller -> [Qtype -> Result]]
    /\ box \in [Caller -> [Qtype -> Result \cup {NIL}]]
    /\ ctxDone \subseteq Caller
    /\ flight \in [Qtype -> Flight \cup {NIL}]

\* A flight knows of every nameserver it has asked: the goroutine runs, or there was
\* a success, a refusal, or a context that was done.  replyCh is empty only as long
\* as no nameserver answered with success.
FlightOK(f) ==
    /\ f.asked \in 0 .. servers
    /\ f.refused \subseteq Server
    /\ f.good <=> f.ch # << >>
    /\ f.at = "wait" => f.asked = servers
    /\ \A s \in 1 .. f.asked : s \in f.running \/ f.good \/ s \in f.refused \/ f.leader \in ctxDone

\* What singleflight hands out is a result, and a failure among them has its cause.
Handed(r) == r.msg \in {"addrs", "empty", "failed"} /\ r.cause

LInv ==
    /\ Types
    /\ \A q \in Qtype : flight[q] # NIL => FlightOK(flight[q])
    /\ \A c \in Caller, q \in Qtype : box[c][q] # NIL => Handed(box[c][q])
    /\ \A c \in Caller, q \in Qtype : sub[c][q].cause
    /\ NobodyForgotten

LEMMA ResultFacts ==
    /\ \A m \in {"none", "waiting", "cancelled", "failed", "addrs", "empty"} :
          Mark(m) \in Result /\ Mark(m).msg = m /\ Mark(m).cause
    /\ NIL \notin Result /\ NIL \notin Flight
BY LookupAssumption DEF Mark, Result

LEMMA InitLInv == Init => LInv
<1> SUFFICES ASSUME Init PROVE LInv
  OBVIOUS
<1>1. Types
  BY ResultFacts, LookupAssumption, SMT DEF Init, Types
<1>2. \A c \in Caller, q \in Qtype : sub[c][q].cause /\ ~Waiting(c, q)
  BY ResultFacts DEF Init, Waiting
<1> QED
  BY <1>1, <1>2 DEF Init, LInv, NobodyForgotten

\* A step that replaces one flight by another with the same members.
LEMMA FlightChanges ==
    ASSUME LInv, NEW q \in Qtype, NEW g \in Flight, flight[q] # NIL,
           flight' = [flight EXCEPT ![q] = g], FlightOK(g), g.members = flight[q].members,
           UNCHANGED <<servers, pc, sub, box, ctxDone>>
    PROVE  LInv'
<1>1. Types'
  BY DEF LInv, Types
<1>2. \A x \in Qtype : flight'[x] = IF x = q THEN g ELSE flight[x]
  BY DEF LInv, Types
<1>3. \A x \in Qtype : (flight[x] # NIL => FlightOK(flight[x]))'
  BY <1>2, SMT DEF LInv, FlightOK, Server
<1>4. NobodyForgotten'
  BY <1>2, ResultFacts, SMT DEF LInv, NobodyForgotten, Waiting
<1> QED
  BY <1>1, <1>3, <1>4 DEF LInv

LEMMA AskNextKeeps ==
    ASSUME LInv, NEW q \in Qtype, flight[q] # NIL, AskNext(q)
    PROVE  LInv'
<1> DEFINE f == flight[q]
           g == IF f.asked < servers
                THEN [f EXCEPT !.asked = @ + 1, !.at = "select", !.running = @ \cup {f.asked + 1}]
                ELSE [f EXCEPT !.at = "wait"]
<1>1. f \in Flight /\ FlightOK(f) /\ servers \in Nat /\ flight \in [Qtype -> Flight \cup {NIL}]
  BY DEF LInv, Types
<1>2. flight' = [flight EXCEPT ![q] = g]
  BY DEF AskNext
<1>3. CASE f.asked < servers
  <2>1. g = [f EXCEPT !.asked = f.asked + 1, !.at = "select", !.running = f.running \cup {f.asked + 1}]
    BY <1>3
  <2> HIDE DEF f, g
  <2>2. f.asked \in Nat /\ f.asked + 1 \in Nat /\ f.running \cup {f.asked + 1} \in SUBSET Nat
    BY <1>1, SMT DEF Flight
  <2>3. /\ g \in Flight /\ g.asked = f.asked + 1 /\ g.at = "select"
        /\ g.running = f.running \cup {f.asked + 1}
        /\ g.members = f.members /\ g.leader = f.leader /\ g.ch = f.ch
        /\ g.good = f.good /\ g.refused = f.refused
    BY <1>1, <2>1, <2>2 DEF Flight
  <2>4. FlightOK(g)
    BY <1>1, <1>3, <2>2, <2>3, SMT DEF FlightOK
  <2> QED
    BY <1>2, <2>3, <2>4, FlightChanges DEF AskNext, f
<1>4. CASE ~(f.asked < servers)
  <2>1. g = [f EXCEPT !.at = "wait"]
    BY <1>4
  <2> HIDE DEF f, g
  <2>2. /\ g \in Flight /\ g.asked = f.asked /\ g.at = "wait" /\ g.running = f.running
        /\ g.members = f.members /\ g.leader = f.leader /\ g.ch = f.ch
        /\ g.good = f.good /\ g.refused = f.refused
    BY <1>1, <2>1 DEF Flight
  <2>3. FlightOK(g)
    BY <1>1, <1>4, <2>2, SMT DEF FlightOK
  <2> QED
    BY <1>2, <2>2, <2>3, FlightChanges DEF AskNext, f
<1> QED
  BY <1>3, <1>4

LEMMA ServerEnds ==
    ASSUME LInv, NEW q \in Qtype, Ends(q)
    PROVE  LInv'
<1> DEFINE f == flight[q]
<1>1. flight[q] # NIL
  BY DEF Ends, ServerFails, ServerReplies
<1>2. f \in Flight /\ FlightOK(f) /\ servers \in Nat /\ flight \in [Qtype -> Flight \cup {NIL}]
  BY <1>1 DEF LInv, Types
<1>3. ASSUME NEW s \in Server, NEW r \in Reply, ServerReplies(q, s, r) PROVE LInv'
  <2> DEFINE g == [f EXCEPT !.running = @ \ {s}, !.good = TRUE, !.ch = IF @ = << >> THEN <<r>> ELSE @]
  <2>1. flight' = [flight EXCEPT ![q] = g]
    BY <1>3 DEF ServerReplies
  <2>2. g = [f EXCEPT !.running = f.running \ {s}, !.good = TRUE,
                      !.ch = IF f.ch = << >> THEN <<r>> ELSE f.ch]
    OBVIOUS
  <2>3. f.ch \in Seq(Reply) /\ <<r>> \in Seq(Reply) /\ <<r>> # << >>
    BY <1>2, SMT DEF Flight, Reply
  <2> HIDE DEF f, g
  <2>4. /\ g \in Flight /\ g.asked = f.asked /\ g.at = f.at /\ g.members = f.members
        /\ g.leader = f.leader /\ g.refused = f.refused /\ g.good
        /\ g.ch = IF f.ch = << >> THEN <<r>> ELSE f.ch
    BY <1>2, <2>2, <2>3 DEF Flight, Reply
  <2>5. FlightOK(g)
    BY <1>2, <2>3, <2>4 DEF FlightOK
  <2> QED
    BY <1>1, <1>3, <2>1, <2>4, <2>5, FlightChanges DEF ServerReplies, f
<1>4. ASSUME NEW s \in Server, ServerFails(q, s) PROVE LInv'
  <2> DEFINE w == IF f.leader \in ctxDone THEN f.refused ELSE f.refused \cup {s}
             g == [f EXCEPT !.running = @ \ {s}, !.refused = w]
  <2>1. flight' = [flight EXCEPT ![q] = g]
    BY <1>4 DEF ServerFails
  <2>2. g = [f EXCEPT !.running = f.running \ {s}, !.refused = w]
    OBVIOUS
  <2>3. w \subseteq Server /\ w \subseteq Nat /\ f.refused \subseteq w /\ (s \in w \/ f.leader \in ctxDone)
    BY <1>2, SMT DEF FlightOK, Server
  <2> HIDE DEF f, g, w
  <2>4. /\ g \in Flight /\ g.asked = f.asked /\ g.at = f.at /\ g.members = f.members
        /\ g.leader = f.leader /\ g.refused = w /\ g.good = f.good /\ g.ch = f.ch
        /\ g.running = f.running \ {s}
    BY <1>2, <2>2, <2>3 DEF Flight
  <2>5. FlightOK(g)
    BY <1>2, <2>3, <2>4 DEF FlightOK
  <2> QED
    BY <1>1, <1>4, <2>1, <2>4, <2>5, FlightChanges DEF ServerFails, f
<1> QED
  BY <1>3, <1>4 DEF Ends

\* The end of a flight, with a result that is one to hand out.
LEMMA LandKeeps ==
    ASSUME LInv, NEW q \in Qtype, flight[q] # NIL, NEW m \in {"addrs", "empty", "failed"},
           Land(q, m), m = "failed" => HasCause(flight[q])
    PROVE  LInv'
<1> DEFINE res == IF m # "failed" THEN Mark(m) ELSE [msg |-> m, cause |-> HasCause(flight[q])]
<1>1. res \in Result /\ Handed(res) /\ res # NIL
  <2>1. CASE m # "failed"
    BY <2>1, ResultFacts DEF Handed
  <2>2. CASE m = "failed"
    <3>1. HasCause(flight[q]) = TRUE
      BY <2>2 DEF HasCause
    <3>2. res = [msg |-> "failed", cause |-> TRUE]
      BY <2>2, <3>1
    <3> QED
      BY <3>2, ResultFacts DEF Result, Handed
  <2> QED
    BY <2>1, <2>2
<1>2. /\ box' = [c \in Caller |-> [x \in Qtype |->
                    IF x = q /\ c \in flight[q].members THEN res ELSE box[c][x]]]
      /\ flight' = [flight EXCEPT ![q] = NIL]
      /\ UNCHANGED <<servers, pc, sub, ctxDone>>
  BY DEF Land
<1> HIDE DEF res
<1>3. \A c \in Caller, x \in Qtype : box'[c][x] = IF x = q /\ c \in flight[q].members THEN res ELSE box[c][x]
  BY <1>2
<1>4. \A x \in Qtype : flight'[x] = IF x = q THEN NIL ELSE flight[x]
  BY <1>2 DEF LInv, Types
<1>5. Types'
  BY <1>1, <1>2 DEF LInv, Types
<1>6. \A x \in Qtype : (flight[x] # NIL => FlightOK(flight[x]))'
  BY <1>2, <1>4, SMT DEF LInv, FlightOK, Server
<1>7. \A c \in Caller, x \in Qtype : box'[c][x] # NIL => Handed(box'[c][x])
  BY <1>1, <1>3 DEF LInv
<1>8. NobodyForgotten'
  BY <1>1, <1>2, <1>3, <1>4, SMT DEF LInv, NobodyForgotten, Waiting
<1> QED
  BY <1>2, <1>5, <1>6, <1>7, <1>8 DEF LInv, Handed

\* A caller arrives: it is a member of the flight of either question.
LEMMA JoinKeeps ==
    ASSUME NEW fl \in [Qtype -> Flight \cup {NIL}], NEW c \in Caller, NEW q \in Qtype,
           servers \in Nat,
           \A x \in Qtype : fl[x] # NIL => FlightOK(fl[x])
    PROVE  /\ Join(fl, c, q) \in [Qtype -> Flight \cup {NIL}]
           /\ \A x \in Qtype : Join(fl, c, q)[x] # NIL => FlightOK(Join(fl, c, q)[x])
           /\ Join(fl, c, q)[q] # NIL /\ c \in Join(fl, c, q)[q].members
           /\ \A x \in Qtype : fl[x] # NIL =>
                 Join(fl, c, q)[x] # NIL /\ fl[x].members \subseteq Join(fl, c, q)[x].members
<1> DEFINE n == [leader |-> c, members |-> {c}, at |-> "loop", asked |-> 0,
                 running |-> {}, ch |-> << >>, good |-> FALSE, refused |-> {}]
           f == fl[q]
           g == IF f # NIL THEN [f EXCEPT !.members = f.members \cup {c}] ELSE n
<1>1. Join(fl, c, q) = [fl EXCEPT ![q] = g]
  BY DEF Join
<1>2. g \in Flight /\ FlightOK(g) /\ c \in g.members /\ (f # NIL => f.members \subseteq g.members)
  <2>1. CASE f # NIL
    <3>1. f \in Flight /\ FlightOK(f)
      BY <2>1
    <3>2. g = [f EXCEPT !.members = f.members \cup {c}]
      BY <2>1
    <3> HIDE DEF f, g
    <3>3. /\ g \in Flight /\ g.asked = f.asked /\ g.at = f.at /\ g.members = f.members \cup {c}
          /\ g.leader = f.leader /\ g.refused = f.refused /\ g.good = f.good /\ g.ch = f.ch
          /\ g.running = f.running
      BY <3>1, <3>2 DEF Flight
    <3> QED
      BY <3>1, <3>3 DEF FlightOK
  <2>2. CASE f = NIL
    <3>1. g = n
      BY <2>2
    <3>2. n \in Flight
      BY SMT DEF Flight
    <3>3. FlightOK(n)
      BY SMT DEF FlightOK, Server
    <3> QED
      BY <2>2, <3>1, <3>2, <3>3
  <2> QED
    BY <2>1, <2>2
<1> HIDE DEF g
<1>3. \A x \in Qtype : Join(fl, c, q)[x] = IF x = q THEN g ELSE fl[x]
  BY <1>1
<1>4. g # NIL
  BY <1>2, ResultFacts
<1> QED
  BY <1>1, <1>2, <1>3, <1>4

LEMMA CallKeeps ==
    ASSUME LInv, NEW c \in Caller, Call(c)
    PROVE  LInv'
<1> DEFINE fa == Join(flight, c, "AAAA")
           fb == Join(fa, c, "A")
<1>1. /\ "A" \in Qtype /\ "AAAA" \in Qtype
      /\ \A x \in Qtype : x = "A" \/ x = "AAAA"
  BY LookupAssumption
<1>2. /\ servers \in Nat /\ flight \in [Qtype -> Flight \cup {NIL}]
      /\ \A x \in Qtype : flight[x] # NIL => FlightOK(flight[x])
  BY DEF LInv, Types
<1>3. /\ fa \in [Qtype -> Flight \cup {NIL}]
      /\ \A x \in Qtype : fa[x] # NIL => FlightOK(fa[x])
      /\ fa["AAAA"] # NIL /\ c \in fa["AAAA"].members
      /\ \A x \in Qtype : flight[x] # NIL => fa[x] # NIL /\ flight[x].members \subseteq fa[x].members
  BY <1>1, <1>2, JoinKeeps
<1> HIDE DEF fa
<1>4. /\ fb \in [Qtype -> Flight \cup {NIL}]
      /\ \A x \in Qtype : fb[x] # NIL => FlightOK(fb[x])
      /\ fb["A"] # NIL /\ c \in fb["A"].members
      /\ \A x \in Qtype : fa[x] # NIL => fb[x] # NIL /\ fa[x].members \subseteq fb[x].members
  BY <1>1, <1>2, <1>3, JoinKeeps
<1> HIDE DEF fb
<1>5. /\ \A x \in Qtype : fb[x] # NIL /\ c \in fb[x].members
      /\ \A x \in Qtype : flight[x] # NIL => flight[x].members \subseteq fb[x].members
  BY <1>1, <1>3, <1>4
<1>6. /\ pc' = [pc EXCEPT ![c] = "v4"]
      /\ sub' = [sub EXCEPT ![c] = [x \in Qtype |-> Mark("waiting")]]
      /\ flight' = fb
      /\ UNCHANGED <<servers, box, ctxDone>>
  BY DEF Call, fa, fb
<1>7. /\ [x \in Qtype |-> Mark("waiting")] \in [Qtype -> Result]
      /\ \A d \in Caller, x \in Qtype : sub'[d][x] = IF d = c THEN Mark("waiting") ELSE sub[d][x]
  BY <1>6, ResultFacts DEF LInv, Types
<1>8. Types'
  BY <1>4, <1>6, <1>7 DEF LInv, Types
<1>9. \A x \in Qtype : (flight[x] # NIL => FlightOK(flight[x]))'
  BY <1>4, <1>6 DEF FlightOK, Server
<1>10. \A d \in Caller, x \in Qtype : sub'[d][x].cause
  BY <1>7, ResultFacts DEF LInv
<1>11. ASSUME NEW d \in Caller, NEW x \in Qtype, Waiting(d, x)'
       PROVE  box'[d][x] # NIL \/ (flight'[x] # NIL /\ d \in flight'[x].members)
  <2>1. CASE d = c
    BY <1>5, <1>6, <2>1
  <2>2. CASE d # c
    <3>1. Waiting(d, x)
      BY <1>7, <1>11, <2>2 DEF Waiting
    <3>2. box[d][x] # NIL \/ (flight[x] # NIL /\ d \in flight[x].members)
      BY <3>1 DEF LInv, NobodyForgotten
    <3> QED
      BY <1>5, <1>6, <3>2
  <2> QED
    BY <2>1, <2>2
<1>12. NobodyForgotten'
  BY <1>11 DEF NobodyForgotten
<1> QED
  BY <1>6, <1>8, <1>9, <1>10, <1>12 DEF LInv, Handed

\* A caller's call of lookupIPWithMsg comes to the result r.
LEMMA SubChanges ==
    ASSUME LInv, NEW c \in Caller, NEW q \in Qtype, NEW r \in Result, r.cause, r.msg # "waiting",
           sub' = [sub EXCEPT ![c][q] = r],
           box' = box \/ box' = [box EXCEPT ![c][q] = NIL],
           UNCHANGED <<servers, pc, ctxDone, flight>>
    PROVE  LInv'
<1>1. /\ sub \in [Caller -> [Qtype -> Result]]
      /\ box \in [Caller -> [Qtype -> Result \cup {NIL}]]
  BY DEF LInv, Types
<1>2. /\ sub' \in [Caller -> [Qtype -> Result]]
      /\ \A d \in Caller, x \in Qtype : sub'[d][x] = IF d = c /\ x = q THEN r ELSE sub[d][x]
  BY <1>1
<1>3. /\ box' \in [Caller -> [Qtype -> Result \cup {NIL}]]
      /\ \A d \in Caller, x \in Qtype : box'[d][x] = box[d][x] \/ (d = c /\ x = q /\ box'[d][x] = NIL)
  <2>1. CASE box' = box
    BY <1>1, <2>1
  <2>2. CASE box' = [box EXCEPT ![c][q] = NIL]
    BY <1>1, <2>2
  <2> QED
    BY <2>1, <2>2
<1>4. Types'
  BY <1>2, <1>3 DEF LInv, Types
<1>5. \A x \in Qtype : (flight[x] # NIL => FlightOK(flight[x]))'
  BY DEF LInv, FlightOK, Server
<1>6. \A d \in Caller, x \in Qtype : box'[d][x] # NIL => Handed(box'[d][x])
  BY <1>3 DEF LInv
<1>7. \A d \in Caller, x \in Qtype : sub'[d][x].cause
  BY <1>2 DEF LInv
<1>8. NobodyForgotten'
  BY <1>2, <1>3, SMT DEF LInv, NobodyForgotten, Waiting
<1> QED
  BY <1>4, <1>5, <1>6, <1>7, <1>8 DEF LInv, Handed

LEMMA NextLInv == LInv /\ [Next]_vars => LInv'
<1> SUFFICES ASSUME LInv, [Next]_vars PROVE LInv'
  OBVIOUS
<1>t. Types /\ \A q \in Qtype : flight[q] # NIL => FlightOK(flight[q])
  BY DEF LInv
<1>1. ASSUME NEW c \in Caller, Call(c) PROVE LInv'
  BY <1>1, CallKeeps
<1>2. ASSUME NEW c \in Caller, ContextDone(c) PROVE LInv'
  <2>1. \A q \in Qtype : (flight[q] # NIL => FlightOK(flight[q]))'
    BY <1>2, <1>t DEF ContextDone, FlightOK, Server
  <2> QED
    BY <1>2, <2>1 DEF ContextDone, LInv, Types, NobodyForgotten, Waiting, Handed
<1>3. ASSUME NEW c \in Caller, V4Returns(c) \/ V6Returns(c) PROVE LInv'
  <2>1. pc' \in [Caller -> {"idle", "v4", "v6", "addrs", "empty", "error"}]
    BY <1>3, <1>t DEF V4Returns, V6Returns, Types, Reply
  <2>2. UNCHANGED <<servers, sub, box, ctxDone, flight>>
    BY <1>3 DEF V4Returns, V6Returns
  <2>3. \A q \in Qtype : (flight[q] # NIL => FlightOK(flight[q]))'
    BY <1>t, <2>2 DEF FlightOK, Server
  <2> QED
    BY <2>1, <2>2, <2>3 DEF LInv, Types, NobodyForgotten, Waiting, Handed
<1>4. ASSUME NEW c \in Caller, NEW q \in Qtype, TakeResult(c, q) PROVE LInv'
  <2>1. box[c][q] \in Result /\ Handed(box[c][q])
    BY <1>4 DEF TakeResult, LInv, Types
  <2> QED
    BY <1>4, <2>1, SubChanges DEF TakeResult, Handed
<1>5. ASSUME NEW c \in Caller, NEW q \in Qtype, GiveUp(c, q) PROVE LInv'
  BY <1>5, ResultFacts, SubChanges DEF GiveUp
<1>6. ASSUME NEW q \in Qtype, StartLoop(q) \/ TickerFires(q) PROVE LInv'
  BY <1>6, AskNextKeeps DEF StartLoop, TickerFires
<1>7. ASSUME NEW q \in Qtype, FirstReply(q) PROVE LInv'
  <2>1. flight[q] \in Flight /\ flight[q].ch # << >>
    BY <1>7, <1>t DEF FirstReply, Types
  <2>2. Head(flight[q].ch) \in {"addrs", "empty"}
    BY <2>1, SMT DEF Flight
  <2> QED
    BY <1>7, <2>2, LandKeeps DEF FirstReply
<1>8. ASSUME NEW q \in Qtype, AllAnswered(q) PROVE LInv'
  <2>1. flight[q] \in Flight /\ FlightOK(flight[q])
    BY <1>8, <1>t DEF AllAnswered, Types
  <2>2. CASE flight[q].ch # << >>
    <3>1. Head(flight[q].ch) \in {"addrs", "empty"}
      BY <2>1, <2>2, SMT DEF Flight
    <3> QED
      BY <1>8, <2>2, <3>1, LandKeeps DEF AllAnswered
  <2>3. CASE flight[q].ch = << >>
    <3>1. ~flight[q].good /\ flight[q].running = {} /\ flight[q].asked = servers
      BY <1>8, <2>1, <2>3 DEF AllAnswered, FlightOK
    <3>2. flight[q].refused = Server \/ flight[q].leader \in ctxDone
      BY <2>1, <3>1 DEF FlightOK, Server
    <3>3. HasCause(flight[q])
      BY <3>1, <3>2 DEF HasCause
    <3> QED
      BY <1>8, <2>3, <3>3, LandKeeps DEF AllAnswered
  <2> QED
    BY <2>2, <2>3
<1>9. ASSUME NEW q \in Qtype, Ends(q) PROVE LInv'
  BY <1>9, ServerEnds
<1>10. CASE UNCHANGED vars
  <2>1. \A q \in Qtype : (flight[q] # NIL => FlightOK(flight[q]))'
    BY <1>10, <1>t DEF FlightOK, Server, vars
  <2> QED
    BY <1>10, <2>1 DEF LInv, Types, NobodyForgotten, Waiting, Handed, vars
<1> QED
  BY <1>1, <1>2, <1>3, <1>4, <1>5, <1>6, <1>7, <1>8, <1>9, <1>10 DEF Next, Step, Exchange, Rest

\* A failed lookup has a cause: every nameserver was asked and refused, or the flight
\* ran with a context that was done.  No success is dropped on the way to the caller.
THEOREM FailuresHaveACause == Spec => []FailureIsGenuine
<1>1. LInv => FailureIsGenuine
  BY DEF LInv, FailureIsGenuine
<1> QED
  BY <1>1, InitLInv, NextLInv, PTL DEF Spec

\* Every caller that waits for a question shares the flight of it, or has its result.
THEOREM EveryWaiterIsServed == Spec => []NobodyForgotten
<1>1. LInv => NobodyForgotten
  BY DEF LInv
<1> QED
  BY <1>1, InitLInv, NextLInv, PTL DEF Spec
==============================================================================
