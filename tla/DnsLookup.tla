------------------------------ MODULE DnsLookup ------------------------------
(***************************************************************************)
(* Resolver.LookupIP and below it: the IPv4 and IPv6 questions of a caller *)
(* run side by side (LookupIP); callers asking the same question at the    *)
(* same time share one flight (lookupIPWithMsg, singleflight.DoChan), which *)
(* runs with the context of the caller that started it; a flight asks the  *)
(* nameservers one after another, half a second apart                      *)
(* (exchangeContextWithoutCache), each in a goroutine of its own.          *)
(*                                                                         *)
(* A reply is what the code tells apart: "addrs" (success, with addresses) *)
(* or "empty" (success, without).  The goroutines a finished flight leaves *)
(* behind only know that flight's channel and are forgotten with it.       *)
(***************************************************************************)
EXTENDS Integers, Sequences, FiniteSets

CONSTANTS Caller,   \* goroutines calling LookupIP for one host
          Qtype,    \* the questions: {"A", "AAAA"}
          NS,       \* the largest number of nameservers configured
          MaxLoad,  \* bound on the number of callers times that of nameservers
          NIL

(* What a call of lookupIPWithMsg has come to, and a flight. *)
Result == [msg : {"none", "waiting", "cancelled", "failed", "addrs", "empty"}, cause : BOOLEAN]
Flight == [leader : Caller, members : SUBSET Caller, at : {"loop", "select", "wait"}, asked : Nat,
           running : SUBSET Nat, ch : Seq({"addrs", "empty"}), good : BOOLEAN, refused : SUBSET Nat]

ASSUME LookupAssumption ==
    /\ {NS, MaxLoad} \subseteq Nat /\ Qtype = {"A", "AAAA"}
    /\ NIL \notin Result \cup Flight

VARIABLES servers,  \* len(r.nameservers)
          pc,       \* where each caller is in LookupIP
          sub,      \* its call of lookupIPWithMsg for each question
          box,      \* what singleflight has put in that call's channel
          ctxDone,  \* the callers whose context is done
          flight    \* the flight of each question, NIL when there is none

vars == <<servers, pc, sub, box, ctxDone, flight>>

Server == 1 .. servers
Reply == {"addrs", "empty"}

(* The end of a flight: its reply or "failed" and, for the properties,     *)
(* whether a failure has a cause: no nameserver gave a success, and each   *)
(* refused, or the context the flight ran with was done.                   *)

Mark(m) == [msg |-> m, cause |-> TRUE]
HasCause(f) == ~f.good /\ (f.refused = Server \/ f.leader \in ctxDone)
Waiting(c, q) == sub[c][q].msg = "waiting"

----------------------------------------------------------------------------
(* lookupGroup.DoChan: join the flight of the question or start one. *)
Join(fl, c, q) ==
    IF fl[q] # NIL THEN [fl EXCEPT ![q].members = @ \cup {c}]
    ELSE [fl EXCEPT ![q] = [leader |-> c, members |-> {c}, at |-> "loop", asked |-> 0,
                            running |-> {}, ch |-> << >>, good |-> FALSE, refused |-> {}]]

MayCall == (1 + Cardinality({ c \in Caller : pc[c] # "idle" })) * servers <= MaxLoad

(* Mutated: the AAAA question is never asked. *)
CallV4Only(c) ==
    /\ pc[c] = "idle" /\ MayCall
    /\ pc' = [pc EXCEPT ![c] = "v4"]
    /\ sub' = [sub EXCEPT ![c] = [q \in Qtype |-> Mark("waiting")]]
    /\ flight' = Join(flight, c, "A")
    /\ UNCHANGED <<servers, box, ctxDone>>

(* LookupIP: the AAAA question in a new goroutine, the A question here. *)
Call(c) ==
    /\ pc[c] = "idle" /\ MayCall
    /\ pc' = [pc EXCEPT ![c] = "v4"]
    /\ sub' = [sub EXCEPT ![c] = [q \in Qtype |-> Mark("waiting")]]
    /\ flight' = Join(Join(flight, c, "AAAA"), c, "A")
    /\ UNCHANGED <<servers, box, ctxDone>>

(* The head of the loop of exchangeContextWithoutCache: ask the next       *)
(* nameserver, or leave the loop for wg.Wait.                              *)
AskNext(q) ==
    /\ flight' = IF flight[q].asked < servers
                 THEN [flight EXCEPT ![q].asked = @ + 1, ![q].at = "select",
                                     ![q].running = @ \cup {flight[q].asked + 1}]
                 ELSE [flight EXCEPT ![q].at = "wait"]
    /\ UNCHANGED <<servers, pc, sub, box, ctxDone>>

StartLoop(q) == flight[q] # NIL /\ flight[q].at = "loop" /\ AskNext(q)

(* case <-ticker.C: half a second without a reply. *)
TickerFires(q) == flight[q] # NIL /\ flight[q].at = "select" /\ AskNext(q)

(* getReplyDnsMsg: nameserver s answers with success; the send is dropped  *)
(* when the channel, of capacity one, is full.                             *)
ServerReplies(q, s, r) ==
    /\ flight[q] # NIL /\ s \in flight[q].running
    /\ flight' = [flight EXCEPT ![q].running = @ \ {s}, ![q].good = TRUE,
                                ![q].ch = IF @ = << >> THEN <<r>> ELSE @]
    /\ UNCHANGED <<servers, pc, sub, box, ctxDone>>

(* getReplyDnsMsg: an error, a timeout or another Rcode. *)
ServerFails(q, s) ==
    /\ flight[q] # NIL /\ s \in flight[q].running
    /\ flight' = [flight EXCEPT ![q].running = @ \ {s},
                                ![q].refused = IF flight[q].leader \in ctxDone THEN @
                                               ELSE @ \cup {s}]
    /\ UNCHANGED <<servers, pc, sub, box, ctxDone>>

(* The function given to DoChan returns: every member gets the result. *)
Land(q, m) ==
    LET f == flight[q]
        res == IF m # "failed" THEN Mark(m)
               ELSE [msg |-> m, cause |-> HasCause(f)]
    IN /\ box' = [c \in Caller |-> [x \in Qtype |->
                     IF x = q /\ c \in f.members THEN res ELSE box[c][x]]]
       /\ flight' = [flight EXCEPT ![q] = NIL]
       /\ UNCHANGED <<servers, pc, sub, ctxDone>>

(* case reply := <-replyCh inside the loop. *)
FirstReply(q) ==
    /\ flight[q] # NIL /\ flight[q].at = "select" /\ flight[q].ch # << >>
    /\ Land(q, Head(flight[q].ch))

(* Mutated: the last receive does not wait for the goroutines. *)
AllAnsweredEarly(q) ==
    /\ flight[q] # NIL /\ flight[q].at = "wait"
    /\ Land(q, IF flight[q].ch # << >> THEN Head(flight[q].ch) ELSE "failed")

(* wg.Wait returned: the reply in the channel, if any. *)
AllAnswered(q) ==
    /\ flight[q] # NIL /\ flight[q].at = "wait" /\ flight[q].running = {}
    /\ Land(q, IF flight[q].ch # << >> THEN Head(flight[q].ch) ELSE "failed")

(* lookupIPWithMsg: select between the context and the flight's result. *)
TakeResult(c, q) ==
    /\ Waiting(c, q) /\ box[c][q] # NIL
    /\ sub' = [sub EXCEPT ![c][q] = box[c][q]]
    /\ box' = [box EXCEPT ![c][q] = NIL]
    /\ UNCHANGED <<servers, pc, ctxDone, flight>>

GiveUp(c, q) ==
    /\ Waiting(c, q) /\ c \in ctxDone
    /\ sub' = [sub EXCEPT ![c][q] = Mark("cancelled")]
    /\ UNCHANGED <<servers, pc, box, ctxDone, flight>>

(* The context of the caller is cancelled or reaches its deadline, before, *)
(* during or after the call: a flight it has started may still run.        *)
ContextDone(c) ==
    /\ c \notin ctxDone
    /\ ctxDone' = ctxDone \cup {c}
    /\ UNCHANGED <<servers, pc, sub, box, flight>>

Returned(c, q) == sub[c][q].msg \notin {"none", "waiting"}

(* LookupIP: IPv4 addresses if there are any, else wait for the others. *)
V4Returns(c) ==
    /\ pc[c] = "v4" /\ Returned(c, "A")
    /\ pc' = [pc EXCEPT ![c] = IF sub[c]["A"].msg = "addrs" THEN "addrs" ELSE "v6"]
    /\ UNCHANGED <<servers, sub, box, ctxDone, flight>>

V6Returns(c) ==
    /\ pc[c] = "v6" /\ Returned(c, "AAAA")
    /\ pc' = [pc EXCEPT ![c] = IF sub[c]["AAAA"].msg \in Reply THEN sub[c]["AAAA"].msg
                               ELSE "error"]
    /\ UNCHANGED <<servers, sub, box, ctxDone, flight>>

Init ==
    /\ servers \in 1 .. NS
    /\ pc = [c \in Caller |-> "idle"]
    /\ sub = [c \in Caller |-> [q \in Qtype |-> Mark("none")]]
    /\ box = [c \in Caller |-> [q \in Qtype |-> NIL]]
    /\ ctxDone = {}
    /\ flight = [q \in Qtype |-> NIL]

Step(c) == V4Returns(c) \/ V6Returns(c)
             \/ \E q \in Qtype : TakeResult(c, q) \/ GiveUp(c, q)
Ends(q) == \E s \in Server : ServerFails(q, s) \/ \E r \in Reply : ServerReplies(q, s, r)
Exchange(q) == StartLoop(q) \/ TickerFires(q) \/ FirstReply(q) \/ AllAnswered(q)

(* Every caller has returned, and no goroutine is left. *)
Rest ==
    /\ \A c \in Caller : pc[c] \in {"addrs", "empty", "error"} \/ (pc[c] = "idle" /\ ~MayCall)
    /\ \A q \in Qtype : flight[q] = NIL /\ \A c \in Caller : ~Waiting(c, q)
    /\ UNCHANGED vars

Next ==
    \/ \E c \in Caller : Call(c) \/ ContextDone(c) \/ Step(c)
    \/ \E q \in Qtype : Exchange(q) \/ Ends(q)
    \/ Rest

Spec == Init /\ [][Next]_vars

----------------------------------------------------------------------------
(* No success is lost: a lookup fails only when no nameserver answered     *)
(* with success, and then either every nameserver was asked and refused,   *)
(* or the flight ran with a context that was done (the capacity of         *)
(* replyCh, wg.Wait before the last receive, and the loop over r.nameservers). *)
FailureIsGenuine ==
    \A c \in Caller, q \in Qtype :
        Returned(c, q) /\ sub[c][q].msg = "failed" => sub[c][q].cause

(* One flight serves everybody who waits: whoever waits for a question has *)
(* its result already or is a member of the question's flight.             *)
NobodyForgotten ==
    \A c \in Caller, q \in Qtype :
        Waiting(c, q) => box[c][q] # NIL \/ (flight[q] # NIL /\ c \in flight[q].members)
==============================================================================
