------------------------- MODULE EngineHandle_proofs -------------------------
(***************************************************************************)
(* Proofs about EngineHandle, for any callers, any table of requests, any  *)
(* models and any capacity of the submission channel: a reply is dropped   *)
(* only when the actor has stopped, the limits in force belong to the      *)
(* active model, and the handle implements RemoteCalls.                    *)
(***************************************************************************)
EXTENDS EngineHandle, SequenceTheorems, TLAPS

(* What the handle itself reports, and the states of a oneshot, are not      *)
(* outcomes the actor sends; the requests the code names have the outcomes   *)
(* it gives them.                                                            *)
Reserved == ChannelErrors \cup {"invalid_params", "empty", "dropped", "none"}
HandleConstants ==
    /\ QueueCap \in Nat
    /\ Callers \cap {"idle", "stopping", "stopped"} = {}
    /\ \A c \in Callers : Requests[c] \subseteq DOMAIN Api
    /\ "none" \notin DOMAIN Api
    /\ \A r \in DOMAIN Api : (Api[r].ok \cup Api[r].err) \cap Reserved = {}
    /\ \A r \in DOMAIN Api \cap ClientQueueCalls : "accepted" \in Api[r].ok
    /\ "shutdown" \in DOMAIN Api => "stopped" \in Api["shutdown"].ok
    /\ "list_models" \in DOMAIN Api => "models" \in Api["list_models"].ok
    /\ "set_model" \in DOMAIN Api => "switched" \in Api["set_model"].ok

SwitchStages == {"switch 1", "switch 2", "switch 3"}
Stages == {"idle", "params", "sending", "waiting", "done"} \cup SwitchStages
Replies == UNION {Api[r].ok \cup Api[r].err : r \in DOMAIN Api}
Results == Replies \cup ChannelErrors \cup {"invalid_params", "none"}

(* The type invariant, with the sequences and functions it leaves out        *)
HandleTypes ==
    /\ stage \in [Callers -> Stages] /\ request \in [Callers -> DOMAIN Api \cup {"none"}]
    /\ answer \in [Callers -> Replies \cup {"empty", "dropped"}]
    /\ result \in [Callers -> Results] /\ queue \in Seq(Callers) /\ Len(queue) <= QueueCap
    /\ actor \in {"idle", "stopping", "stopped"} \cup Callers
    /\ done \in [Callers -> Nat] /\ provider \in Models /\ window \in Models
    /\ outputCap \in Models /\ target \in [Callers -> Models \cup {NoModel}]
    /\ overlap \in BOOLEAN

Queued(c) == \E i \in DOMAIN queue : queue[i] = c
Submitted(c) == Queued(c) \/ actor = c

(* Before it is sent, and while its model is switched, a request is with its *)
(* caller alone                                                              *)
EarlyOf(c) ==
    /\ stage[c] = "idle" <=> request[c] = "none"
    /\ stage[c] # "done" => result[c] = "none"
    /\ stage[c] \in {"idle", "params", "sending"} \cup SwitchStages =>
          ~Submitted(c) /\ done[c] = 0 /\ answer[c] = "empty"
    /\ stage[c] \in {"sending", "waiting"} => Entry(c).sub # "none"
    /\ stage[c] = "waiting" => ~FireAndForget(c)
    /\ stage[c] \in SwitchStages => request[c] = "set_model" /\ Entry(c).sub = "none"
                                    /\ target[c] \in Models
EarlyInv == \A c \in Callers : EarlyOf(c)

(* A submission is in one place, not carried out yet, and its caller waits   *)
(* for it, has given up waiting, or never would wait                         *)
SubmittedInv ==
    /\ \A i, j \in DOMAIN queue : queue[i] = queue[j] => i = j
    /\ \A c \in Callers : Queued(c) => actor # c
    /\ \A c \in Callers : Submitted(c) =>
          /\ done[c] = 0 /\ answer[c] = "empty" /\ Entry(c).sub # "none"
          /\ FireAndForget(c) \/ stage[c] = "waiting" \/ result[c] = "reply_timed_out"

(* A reply is dropped when the loop ends, for a submission it did not reach, *)
(* and any other was sent by the operation it answers                        *)
AnswerInv == \A c \in Callers :
    /\ answer[c] = "dropped" => actor = "stopped" /\ done[c] = 0
    /\ answer[c] \notin {"empty", "dropped"} =>
          /\ done[c] = 1 /\ answer[c] \in Entry(c).ok \cup Entry(c).err
    /\ stage[c] = "done" => result[c] \in Declared(Entry(c))
    /\ result[c] = "reply_dropped" => actor = "stopped"

(* Where a lone switch is tells whose limits are in force                    *)
ModelInv == ~overlap =>
    /\ \A c, d \in Switching : c = d
    /\ Switching = {} => window = provider /\ outputCap = provider
    /\ \A c \in Switching :
          /\ stage[c] = "switch 1" => window = provider /\ outputCap = provider
          /\ stage[c] # "switch 1" => provider = target[c]
          /\ stage[c] = "switch 3" => window = target[c]

HandleInv == HandleTypes /\ EarlyInv /\ SubmittedInv /\ AnswerInv /\ ModelInv

-----------------------------------------------------------------------------
(* Outcomes of the table are not states of the oneshot or reports of the     *)
(* handle, and they are results                                              *)
LEMMA OutcomesAreResults ==
    ASSUME HandleConstants, NEW r \in DOMAIN Api, NEW out \in Api[r].ok \cup Api[r].err
    PROVE  out \in Replies /\ out \in Results /\ out \notin Reserved
  BY DEF HandleConstants, Replies, Results

(* What is known of a caller stays while its request stays where it is       *)
LEMMA EarlyUnmoved ==
    ASSUME NEW c \in Callers, EarlyOf(c), Submitted(c)' => Submitted(c),
           stage'[c] = stage[c], result'[c] = result[c], request'[c] = request[c],
           answer'[c] = answer[c], done'[c] = done[c], target'[c] = target[c]
    PROVE  EarlyOf(c)'
  BY DEF EarlyOf, Entry, FireAndForget

LEMMA HandleStarts == ASSUME HandleConstants, Init PROVE HandleInv
<1>1. queue = <<>> /\ <<>> \in Seq(Callers) /\ Len(queue) = 0 /\ DOMAIN queue = {}
  BY DEF Init
<1>2. \A c \in Callers : ~Submitted(c)
  BY <1>1 DEF Init, HandleConstants, Submitted, Queued
<1>3. Switching = {}
  BY DEF Init, Switching
<1>4. HandleTypes
  <2>1. /\ stage \in [Callers -> Stages] /\ request \in [Callers -> DOMAIN Api \cup {"none"}]
        /\ target \in [Callers -> Models \cup {NoModel}] /\ done \in [Callers -> Nat]
    BY DEF Init, Stages
  <2>2. /\ answer \in [Callers -> Replies \cup {"empty", "dropped"}]
        /\ result \in [Callers -> Results]
    BY DEF Init, Results
  <2>3. queue \in Seq(Callers) /\ Len(queue) <= QueueCap
    BY <1>1 DEF HandleConstants
  <2> QED
    BY <2>1, <2>2, <2>3 DEF Init, HandleTypes
<1> QED
  BY <1>1, <1>2, <1>3, <1>4 DEF Init, HandleConstants, HandleInv, EarlyInv, EarlyOf, SubmittedInv, AnswerInv, ModelInv,
     SwitchStages

(* A step that leaves the switches under way where they are                  *)
LEMMA ModelsKept ==
    ASSUME ModelInv, Switching' = Switching, \A d \in Switching : stage'[d] = stage[d],
           UNCHANGED modelv
    PROVE  ModelInv'
  BY DEF ModelInv, modelv

(* A step of caller c that leaves channel, actor, answers and models alone:  *)
(* what remains to be shown is about its own stage and result                *)
Waits(c) ==
    /\ \E s \in Stages : stage' = [stage EXCEPT ![c] = s]
    /\ \E r \in Results : result' = [result EXCEPT ![c] = r]
    /\ UNCHANGED <<answer, queue, actor, done, modelv>>

LEMMA WaitsKept ==
    ASSUME HandleInv, NEW c \in Callers, Waits(c), Switching' = Switching,
           request' \in [Callers -> DOMAIN Api \cup {"none"}],
           \A d \in Callers \ {c} : request'[d] = request[d],
           /\ stage'[c] = "idle" <=> request'[c] = "none"
           /\ stage'[c] # "done" => result'[c] = "none"
           /\ stage'[c] \in {"idle", "params", "sending"} => ~Submitted(c) /\ done[c] = 0
                                                              /\ answer[c] = "empty"
           /\ stage'[c] \in {"sending", "waiting"} => Entry(c)'.sub # "none"
           /\ stage'[c] = "waiting" => ~FireAndForget(c)'
           /\ stage'[c] \notin SwitchStages,
           Submitted(c) => /\ request'[c] = request[c]
                           /\ FireAndForget(c) \/ stage'[c] = "waiting"
                              \/ result'[c] = "reply_timed_out",
           answer[c] \notin {"empty", "dropped"} => request'[c] = request[c],
           stage'[c] = "done" => result'[c] \in Declared(Entry(c)'),
           result'[c] = "reply_dropped" => actor = "stopped"
    PROVE  HandleInv'
<1> USE DEF HandleInv, HandleTypes
<1>1. \A d : Submitted(d)' = Submitted(d) /\ Queued(d)' = Queued(d)
  BY DEF Waits, Submitted, Queued
<1>2. \A d \in Callers \ {c} : /\ stage'[d] = stage[d] /\ result'[d] = result[d]
                               /\ Entry(d)' = Entry(d) /\ FireAndForget(d)' = FireAndForget(d)
  BY DEF Waits, Entry, FireAndForget
<1>0. UNCHANGED <<answer, queue, actor, done>>
      /\ UNCHANGED <<provider, window, outputCap, target, overlap>>
  BY DEF Waits, modelv
<1>3. HandleTypes'
  <2>1. stage' \in [Callers -> Stages] /\ result' \in [Callers -> Results]
    BY DEF Waits
  <2> QED
    BY <1>0, <2>1
<1>4. EarlyInv'
  <2>1. ASSUME NEW d \in Callers, d # c PROVE EarlyOf(d)'
    BY <1>0, <1>1, <1>2, <2>1, EarlyUnmoved DEF EarlyInv
  <2>2. EarlyOf(c)'
    BY <1>0, <1>1 DEF EarlyOf
  <2> QED
    BY <2>1, <2>2 DEF EarlyInv
<1>5. SubmittedInv'
  <2>1. Submitted(c) => Entry(c)' = Entry(c) /\ FireAndForget(c)' = FireAndForget(c)
    BY DEF Entry, FireAndForget
  <2> QED
    BY <1>1, <1>2, <2>1 DEF SubmittedInv, Waits
<1>6. AnswerInv'
  <2>1. answer[c] \notin {"empty", "dropped"} => Entry(c)' = Entry(c)
    BY DEF Entry
  <2> QED
    BY <1>2, <2>1 DEF AnswerInv, Waits
<1>7. ModelInv'
  <2>1. \A d \in Switching : stage'[d] = stage[d]
    BY <1>2 DEF Switching, SwitchStages
  <2> QED
    BY <2>1, ModelsKept DEF Waits
<1> QED
  BY <1>3, <1>4, <1>5, <1>6, <1>7

LEMMA AskKept ==
    ASSUME HandleConstants, HandleInv, NEW c \in Callers, NEW call \in Requests[c], Ask(c, call)
    PROVE  HandleInv'
<1> USE DEF HandleInv, HandleTypes
<1>1. Waits(c)
  BY DEF Ask, Waits, Stages
<1>2. call \in DOMAIN Api /\ call # "none"
  BY DEF HandleConstants
<1>3. Switching' = Switching
  BY DEF Ask, Switching
<1>4. ~Submitted(c) /\ done[c] = 0 /\ answer[c] = "empty" /\ result[c] = "none"
  BY DEF Ask, EarlyInv, EarlyOf
<1> QED
  BY <1>1, <1>2, <1>3, <1>4, WaitsKept DEF Ask, SwitchStages

LEMMA DecodeKept ==
    ASSUME HandleConstants, HandleInv, NEW c \in Callers, Decode(c) PROVE HandleInv'
<1> USE DEF HandleInv, HandleTypes
<1>1. Waits(c)
  BY DEF Decode, Finish, Waits, Stages, Results
<1>2. Switching' = Switching
  BY DEF Decode, Finish, Switching
<1>3. ~Submitted(c) /\ done[c] = 0 /\ answer[c] = "empty" /\ result[c] = "none" /\ request[c] # "none"
  BY DEF Decode, EarlyInv, EarlyOf
<1>4. Entry(c)' = Entry(c) /\ request' = request
  BY DEF Decode, Entry
<1> QED
  BY <1>1, <1>2, <1>3, <1>4, WaitsKept DEF Decode, Finish, SwitchStages, Declared

LEMMA ReturnKept ==
    ASSUME HandleConstants, HandleInv, NEW c \in Callers, Return(c) \/ Timeout(c)
    PROVE  HandleInv'
<1> USE DEF HandleInv, HandleTypes
<1>1. request[c] \in DOMAIN Api /\ Entry(c) = Api[request[c]]
  BY DEF EarlyInv, EarlyOf, Return, Timeout, Entry
<1>2. answer[c] \notin {"empty", "dropped"} =>
          answer[c] \in Declared(Entry(c)) /\ answer[c] \in Results
          /\ answer[c] # "reply_dropped"
  <2> SUFFICES ASSUME answer[c] \notin {"empty", "dropped"}
               PROVE  answer[c] \in Declared(Entry(c)) /\ answer[c] \in Results
                      /\ answer[c] \notin Reserved
    BY DEF Reserved, ChannelErrors
  <2>1. answer[c] \in Entry(c).ok \cup Entry(c).err
    BY DEF AnswerInv
  <2> QED
    BY <1>1, <2>1, OutcomesAreResults DEF Declared
<1>3. \E r \in Results : /\ result' = [result EXCEPT ![c] = r] /\ r \in Declared(Entry(c))
                         /\ r = "reply_dropped" => actor = "stopped"
                         /\ answer[c] = "empty" => r = "reply_timed_out"
  <2>1. CASE Return(c) /\ answer[c] = "dropped"
    BY <2>1 DEF Return, Finish, AnswerInv, Results, ChannelErrors, Declared
  <2>2. CASE Return(c) /\ answer[c] # "dropped"
    BY <1>2, <2>2 DEF Return, Finish
  <2>3. CASE Timeout(c)
    BY <2>3 DEF Timeout, Finish, Results, ChannelErrors, Declared
  <2> QED
    BY <2>1, <2>2, <2>3
<1>4. stage' = [stage EXCEPT ![c] = "done"] /\ request' = request
  BY DEF Return, Timeout, Finish
<1>5. Waits(c)
  BY <1>3, <1>4 DEF Return, Timeout, Waits, Stages
<1>6. Switching' = Switching
  BY <1>4 DEF Return, Timeout, Switching
<1>7. Entry(c)' = Entry(c) /\ (Submitted(c) => result'[c] = "reply_timed_out")
  BY <1>3, <1>4 DEF Entry, SubmittedInv
<1> QED
  BY <1>1, <1>3, <1>4, <1>5, <1>6, <1>7, WaitsKept DEF SwitchStages, HandleConstants

-----------------------------------------------------------------------------
(* Sequences: what adding at the end and taking the head do to the queue     *)
LEMMA QueueAppend ==
    ASSUME NEW q \in Seq(Callers), NEW c \in Callers,
           \A i, j \in DOMAIN q : q[i] = q[j] => i = j, \A i \in DOMAIN q : q[i] # c
    PROVE  /\ Append(q, c) \in Seq(Callers) /\ Len(Append(q, c)) = Len(q) + 1
           /\ \A d : (\E i \in DOMAIN Append(q, c) : Append(q, c)[i] = d)
                        <=> d = c \/ \E i \in DOMAIN q : q[i] = d
           /\ \A i, j \in DOMAIN Append(q, c) : Append(q, c)[i] = Append(q, c)[j] => i = j
<1>1. /\ Append(q, c) \in Seq(Callers) /\ Len(Append(q, c)) = Len(q) + 1 /\ Len(q) \in Nat
      /\ \A i \in 1..Len(q) : Append(q, c)[i] = q[i]
      /\ Append(q, c)[Len(q) + 1] = c /\ DOMAIN q = 1..Len(q)
      /\ DOMAIN Append(q, c) = 1..(Len(q) + 1)
  BY AppendProperties, LenProperties
<1>2. \A i \in DOMAIN Append(q, c) : i \in DOMAIN q \/ i = Len(q) + 1
  BY <1>1
<1>3. DOMAIN q \subseteq DOMAIN Append(q, c) /\ Len(q) + 1 \in DOMAIN Append(q, c)
  BY <1>1
<1> QED
  BY <1>1, <1>2, <1>3

LEMMA QueueTail ==
    ASSUME NEW q \in Seq(Callers), q # <<>>, \A i, j \in DOMAIN q : q[i] = q[j] => i = j
    PROVE  /\ Tail(q) \in Seq(Callers) /\ Len(Tail(q)) + 1 = Len(q) /\ Head(q) \in Callers
           /\ \E i \in DOMAIN q : q[i] = Head(q)
           /\ \A d : (\E i \in DOMAIN Tail(q) : Tail(q)[i] = d)
                        => d # Head(q) /\ \E i \in DOMAIN q : q[i] = d
           /\ \A i, j \in DOMAIN Tail(q) : Tail(q)[i] = Tail(q)[j] => i = j
<1>1. /\ Tail(q) \in Seq(Callers) /\ Len(Tail(q)) = Len(q) - 1 /\ Len(q) \in Nat /\ Len(q) > 0
      /\ DOMAIN q = 1..Len(q) /\ DOMAIN Tail(q) = 1..(Len(q) - 1)
      /\ \A i \in 1..(Len(q) - 1) : Tail(q)[i] = q[i + 1]
      /\ Head(q) = q[1] /\ q[1] \in Callers
  BY HeadTailProperties, ElementOfSeq, EmptySeq, LenProperties
<1>2. \A i \in DOMAIN Tail(q) :
          i \in Int /\ i + 1 \in DOMAIN q /\ i + 1 # 1 /\ Tail(q)[i] = q[i + 1]
  BY <1>1
<1>3. 1 \in DOMAIN q
  BY <1>1
<1>4. \A i, j \in DOMAIN Tail(q) : Tail(q)[i] = Tail(q)[j] => i = j
  BY <1>2
<1> QED
  BY <1>1, <1>2, <1>3, <1>4

LEMMA SendKept ==
    ASSUME HandleConstants, HandleInv, NEW c \in Callers, Send(c) PROVE HandleInv'
<1> USE DEF HandleInv, HandleTypes
<1>1. ~Submitted(c) /\ done[c] = 0 /\ answer[c] = "empty" /\ result[c] = "none"
      /\ request[c] \in DOMAIN Api /\ request[c] # "none" /\ Entry(c).sub # "none"
  BY DEF Send, EarlyInv, EarlyOf, HandleConstants
<1>2. Switching' = Switching /\ \A d \in Switching : stage'[d] = stage[d]
  BY DEF Send, Finish, Switching
<1>3. \A d \in Callers : Entry(d)' = Entry(d) /\ FireAndForget(d)' = FireAndForget(d)
  BY DEF Send, Entry, FireAndForget
<1>4. CASE actor = "stopped"
  <2>1. Waits(c) /\ stage'[c] = "done" /\ result'[c] = "actor_stopped" /\ request' = request
    BY <1>4 DEF Send, Finish, Waits, Stages, Results, ChannelErrors
  <2>2. result'[c] \in Declared(Entry(c)')
    BY <2>1 DEF Declared, ChannelErrors
  <2> QED
    BY <1>1, <1>2, <1>3, <2>1, <2>2, WaitsKept DEF SwitchStages
<1>5. CASE actor # "stopped"
  <2>1. /\ Len(queue) < QueueCap /\ queue' = Append(queue, c)
        /\ UNCHANGED <<request, answer, actor, done>> /\ UNCHANGED modelv
        /\ \A d \in Callers \ {c} : stage'[d] = stage[d] /\ result'[d] = result[d]
    BY <1>5 DEF Send, Finish
  <2>2. /\ queue' \in Seq(Callers) /\ Len(queue') = Len(queue) + 1
        /\ \A d : Queued(d)' <=> d = c \/ Queued(d)
        /\ \A i, j \in DOMAIN queue' : queue'[i] = queue'[j] => i = j
    <3>1. \A i, j \in DOMAIN queue : queue[i] = queue[j] => i = j
      BY DEF SubmittedInv
    <3>2. \A i \in DOMAIN queue : queue[i] # c
      BY <1>1 DEF Submitted, Queued
    <3>3. /\ Append(queue, c) \in Seq(Callers) /\ Len(Append(queue, c)) = Len(queue) + 1
          /\ \A d : (\E i \in DOMAIN Append(queue, c) : Append(queue, c)[i] = d)
                       <=> d = c \/ \E i \in DOMAIN queue : queue[i] = d
          /\ \A i, j \in DOMAIN Append(queue, c) :
                Append(queue, c)[i] = Append(queue, c)[j] => i = j
      BY <3>1, <3>2, QueueAppend
    <3> QED
      BY <2>1, <3>3 DEF Queued
  <2>3. \A d : Submitted(d)' <=> d = c \/ Submitted(d)
    BY <2>1, <2>2 DEF Submitted
  <2>4. \/ /\ FireAndForget(c) /\ stage' = [stage EXCEPT ![c] = "done"]
           /\ result' = [result EXCEPT ![c] = "accepted"]
        \/ /\ ~FireAndForget(c) /\ stage' = [stage EXCEPT ![c] = "waiting"] /\ result' = result
    BY <1>5 DEF Send, Finish
  <2>5. FireAndForget(c) => "accepted" \in Entry(c).ok \cup Entry(c).err
                             /\ "accepted" \in Results /\ "accepted" # "reply_dropped"
    BY <1>1, OutcomesAreResults DEF FireAndForget, Entry, HandleConstants
  <2>6. HandleTypes'
    <3>1. stage' \in [Callers -> Stages] /\ result' \in [Callers -> Results]
      BY <2>4, <2>5 DEF Stages
    <3>2. Len(queue') <= QueueCap
      <4>1. Len(queue) \in Nat /\ QueueCap \in Nat
        BY LenProperties DEF HandleConstants
      <4> QED
        BY <2>1, <2>2, <4>1
    <3> QED
      BY <2>1, <2>2, <3>1, <3>2 DEF modelv
  <2>7. EarlyInv'
    <3>1. target' = target
      BY <2>1 DEF modelv
    <3>2. ASSUME NEW d \in Callers, d # c PROVE EarlyOf(d)'
      BY <2>1, <2>3, <3>1, <3>2, EarlyUnmoved DEF EarlyInv
    <3>3. stage'[c] \in {"done", "waiting"} /\ (stage'[c] = "waiting" => ~FireAndForget(c))
          /\ (stage'[c] # "done" => result'[c] = "none") /\ request'[c] = request[c]
      BY <1>1, <2>1, <2>4
    <3>4. EarlyOf(c)'
      BY <1>1, <1>3, <3>3 DEF EarlyOf, SwitchStages
    <3> QED
      BY <3>2, <3>4 DEF EarlyInv
  <2>8. SubmittedInv'
    BY <1>1, <1>3, <2>1, <2>2, <2>3, <2>4 DEF SubmittedInv, Submitted
  <2>9. AnswerInv'
    BY <1>1, <1>3, <2>1, <2>4, <2>5 DEF AnswerInv, Declared
  <2>10. ModelInv'
    BY <1>2, <2>1, ModelsKept
  <2> QED
    BY <2>6, <2>7, <2>8, <2>9, <2>10
<1> QED
  BY <1>4, <1>5

LEMMA TakeKept == ASSUME HandleConstants, HandleInv, Take PROVE HandleInv'
<1> USE DEF HandleInv, HandleTypes
<1>1. /\ queue' = Tail(queue) /\ actor' = Head(queue) /\ actor = "idle"
      /\ UNCHANGED <<stage, request, answer, result, done>> /\ UNCHANGED modelv
  BY DEF Take, callv
<1>2. /\ queue' \in Seq(Callers) /\ Len(queue') <= QueueCap /\ actor' \in Callers
      /\ Queued(actor') /\ \A d : Queued(d)' => d # actor' /\ Queued(d)
      /\ \A i, j \in DOMAIN queue' : queue'[i] = queue'[j] => i = j
  <2>1. queue # <<>> /\ \A i, j \in DOMAIN queue : queue[i] = queue[j] => i = j
    BY DEF Take, SubmittedInv
  <2>2. Len(queue') + 1 = Len(queue) /\ Len(queue') \in Nat /\ Len(queue) \in Nat
    BY <1>1, <2>1, QueueTail, LenProperties
  <2>3. Len(queue') <= QueueCap
    BY <2>2 DEF HandleConstants
  <2> QED
    BY <1>1, <2>1, <2>3, QueueTail DEF Queued
<1>3. \A d \in Callers : Submitted(d)' => Submitted(d)
  BY <1>2 DEF Submitted
<1>4. \A d \in Callers : Entry(d)' = Entry(d) /\ FireAndForget(d)' = FireAndForget(d)
  BY <1>1 DEF Entry, FireAndForget
<1>5. HandleTypes'
  BY <1>1, <1>2 DEF modelv
<1>6. EarlyInv'
  <2>1. target' = target
    BY <1>1 DEF modelv
  <2> QED
    BY <1>1, <1>3, <2>1, EarlyUnmoved DEF EarlyInv
<1>7. SubmittedInv'
  BY <1>1, <1>2, <1>3, <1>4 DEF SubmittedInv
<1>8. AnswerInv'
  BY <1>1, <1>2, <1>4 DEF AnswerInv, HandleConstants
<1>9. ModelInv'
  <2>1. Switching' = Switching
    BY <1>1 DEF Switching
  <2> QED
    BY <1>1, <2>1, ModelsKept
<1> QED
  BY <1>5, <1>6, <1>7, <1>8, <1>9

(* The actor carries out the operation of the submission it holds: Dispatch  *)
(* and BeginShutdown                                                         *)
Performs(out) ==
    /\ actor \in Callers /\ done' = [done EXCEPT ![actor] = @ + 1]
    /\ answer' = [answer EXCEPT ![actor] = out]
    /\ out = "empty" \/ out \in Entry(actor).ok \cup Entry(actor).err
    /\ actor' \in {"idle", "stopping"}
    /\ UNCHANGED <<stage, request, result, queue>> /\ UNCHANGED modelv

LEMMA PerformsKept ==
    ASSUME HandleConstants, HandleInv, NEW out, Performs(out) PROVE HandleInv'
<1> USE DEF HandleInv, HandleTypes
<1> PICK c \in Callers : c = actor
  BY DEF Performs
<1>1. c \in Callers /\ c # "idle" /\ c # "stopping" /\ c # "stopped"
  BY DEF Performs, HandleConstants
<1>2. /\ done[c] = 0 /\ answer[c] = "empty" /\ ~Queued(c)
      /\ stage[c] \in {"waiting", "done"} /\ request[c] \in DOMAIN Api
  BY <1>1 DEF SubmittedInv, Submitted, EarlyInv, EarlyOf, Stages, SwitchStages
<1>3. out \in Replies \cup {"empty"} /\ out \notin Reserved \ {"empty"}
  BY <1>2, OutcomesAreResults DEF Performs, Entry, Reserved
<1>4. /\ done'[c] = 1 /\ answer'[c] = out
      /\ \A d \in Callers \ {c} : done'[d] = done[d] /\ answer'[d] = answer[d]
  BY <1>1, <1>2 DEF Performs
<1>5. /\ \A d : Queued(d)' <=> Queued(d)
      /\ ~Submitted(c)' /\ \A d \in Callers : Submitted(d)' => Submitted(d)
  <2>1. \A d : Queued(d)' <=> Queued(d)
    BY DEF Performs, Queued
  <2>2. \A d \in Callers : actor' # d
    BY DEF Performs, HandleConstants
  <2> QED
    BY <1>1, <1>2, <2>1, <2>2 DEF Submitted
<1>6. \A d \in Callers : Entry(d)' = Entry(d) /\ FireAndForget(d)' = FireAndForget(d)
  BY DEF Performs, Entry, FireAndForget
<1>7. HandleTypes'
  <2>1. done' \in [Callers -> Nat] /\ answer' \in [Callers -> Replies \cup {"empty", "dropped"}]
    BY <1>1, <1>3 DEF Performs
  <2> QED
    BY <2>1 DEF Performs, modelv
<1>8. EarlyInv'
  <2>1. UNCHANGED <<stage, request, result, target>>
    BY DEF Performs, modelv
  <2>2. ASSUME NEW d \in Callers, d # c PROVE EarlyOf(d)'
    BY <1>4, <1>5, <2>1, <2>2, EarlyUnmoved DEF EarlyInv
  <2>3. EarlyOf(c)'
    BY <1>1, <1>2, <1>6, <2>1 DEF EarlyInv, EarlyOf, SwitchStages
  <2> QED
    BY <2>2, <2>3 DEF EarlyInv
<1>9. SubmittedInv'
  <2>1. \A i, j \in DOMAIN queue' : queue'[i] = queue'[j] => i = j
    BY DEF Performs, SubmittedInv
  <2>2. \A d \in Callers : actor' # d
    BY DEF Performs, HandleConstants
  <2>3. ASSUME NEW d \in Callers, Submitted(d)'
        PROVE  /\ done'[d] = 0 /\ answer'[d] = "empty" /\ Entry(d)'.sub # "none"
               /\ FireAndForget(d)' \/ stage'[d] = "waiting" \/ result'[d] = "reply_timed_out"
    <3>1. d # c /\ Submitted(d) /\ stage' = stage /\ result' = result
      BY <1>5, <2>3 DEF Performs
    <3> QED
      BY <1>4, <1>6, <3>1 DEF SubmittedInv
  <2> QED
    BY <2>1, <2>2, <2>3 DEF SubmittedInv
<1>10. AnswerInv'
  <2>1. result' = result /\ stage' = stage /\ (actor = "stopped" => FALSE)
    BY <1>1 DEF Performs
  <2>2. out \notin {"empty", "dropped"} => out \in Entry(c).ok \cup Entry(c).err
    BY DEF Performs
  <2>3. out # "dropped"
    BY <1>3 DEF Reserved
  <2> QED
    BY <1>4, <1>6, <2>1, <2>2, <2>3 DEF AnswerInv
<1>11. ModelInv'
  <2>1. Switching' = Switching /\ stage' = stage
    BY DEF Performs, Switching
  <2> QED
    BY <2>1, ModelsKept DEF Performs
<1> QED
  BY <1>7, <1>8, <1>9, <1>10, <1>11

LEMMA DispatchPerforms ==
    ASSUME HandleConstants, HandleInv, Dispatch \/ BeginShutdown PROVE \E out : Performs(out)
<1> USE DEF HandleInv, HandleTypes
<1>1. actor \in Callers /\ Submitted(actor)
  BY DEF Dispatch, BeginShutdown, Submitted
<1>2. request[actor] \in DOMAIN Api /\ answer[actor] = "empty"
  BY <1>1 DEF SubmittedInv, EarlyInv, EarlyOf
<1>3. CASE Dispatch
  <2>1. CASE FireAndForget(actor)
    <3>1. answer' = [answer EXCEPT ![actor] = "empty"]
      BY <1>2, <1>3, <2>1 DEF Dispatch
    <3> QED
      BY <1>3, <3>1 DEF Dispatch, Performs
  <2>2. CASE ~FireAndForget(actor)
    BY <1>3, <2>2 DEF Dispatch, Performs
  <2> QED
    BY <2>1, <2>2
<1>4. CASE BeginShutdown
  <2>1. "stopped" \in Entry(actor).ok
    BY <1>2, <1>4 DEF BeginShutdown, Entry, HandleConstants
  <2> QED
    BY <1>4, <2>1 DEF BeginShutdown, Performs
<1> QED
  BY <1>3, <1>4

LEMMA LoopEndsKept == ASSUME HandleConstants, HandleInv, LoopEnds PROVE HandleInv'
<1> USE DEF HandleInv, HandleTypes
<1>1. /\ queue' = <<>> /\ actor = "stopping" /\ actor' = "stopped"
      /\ UNCHANGED <<stage, request, result, done>> /\ UNCHANGED modelv
      /\ \A d \in Callers : answer'[d] = IF Queued(d) THEN "dropped" ELSE answer[d]
      /\ answer' \in [Callers -> Replies \cup {"empty", "dropped"}]
  <2>1. DOMAIN queue = 1..Len(queue)
    BY LenProperties
  <2>2. \A d \in Callers : answer'[d] = IF Queued(d) THEN "dropped" ELSE answer[d]
    BY <2>1 DEF LoopEnds, Queued
  <2> QED
    BY <2>2 DEF LoopEnds
<1>2. queue' \in Seq(Callers) /\ Len(queue') = 0 /\ DOMAIN queue' = {}
  BY <1>1
<1>3. \A d \in Callers : ~Submitted(d)' /\ ~Queued(d)'
  BY <1>1, <1>2 DEF Submitted, Queued, HandleConstants
<1>4. \A d \in Callers : Entry(d)' = Entry(d) /\ FireAndForget(d)' = FireAndForget(d)
  BY <1>1 DEF Entry, FireAndForget
<1>5. \A d \in Callers : Queued(d) => Submitted(d)
  BY DEF Submitted
<1>6. HandleTypes'
  BY <1>1, <1>2 DEF HandleConstants, modelv
<1>7. EarlyInv'
  <2>1. target' = target
    BY <1>1 DEF modelv
  <2> QED
    BY <1>1, <1>3, <1>4, <1>5, <2>1 DEF EarlyInv, EarlyOf
<1>8. SubmittedInv'
  BY <1>2, <1>3 DEF SubmittedInv
<1>9. AnswerInv'
  BY <1>1, <1>4, <1>5 DEF AnswerInv, SubmittedInv
<1>10. ModelInv'
  <2>1. Switching' = Switching /\ stage' = stage
    BY <1>1 DEF Switching
  <2> QED
    BY <1>1, <2>1, ModelsKept
<1> QED
  BY <1>6, <1>7, <1>8, <1>9, <1>10

(* A step of a switch of models by caller c: SwapProvider, SetWindow,        *)
(* SetOutputCap and the start of the switch.  The channel is not involved.   *)
Switches(c) ==
    /\ stage[c] \in {"params"} \cup SwitchStages
    /\ \/ /\ \E s \in SwitchStages : stage' = [stage EXCEPT ![c] = s]
          /\ result' = result /\ target'[c] \in Models
       \/ stage' = [stage EXCEPT ![c] = "done"] /\ result' = [result EXCEPT ![c] = "switched"]
    /\ \A d \in Callers \ {c} : target'[d] = target[d]
    /\ request[c] = "set_model" /\ Entry(c).sub = "none"
    /\ UNCHANGED <<request, answer, queue, actor, done>>

LEMMA SwitchesKept ==
    ASSUME HandleConstants, HandleInv, NEW c \in Callers, Switches(c)
    PROVE  /\ stage' \in [Callers -> Stages] /\ result' \in [Callers -> Results]
           /\ EarlyInv' /\ SubmittedInv' /\ AnswerInv'
<1> USE DEF HandleInv, HandleTypes
<1>1. /\ ~Submitted(c) /\ done[c] = 0 /\ answer[c] = "empty" /\ result[c] = "none"
      /\ request[c] \in DOMAIN Api /\ request[c] # "none"
  BY DEF Switches, EarlyInv, EarlyOf, HandleConstants, SwitchStages
<1>2. \A d : Queued(d)' = Queued(d) /\ Submitted(d)' = Submitted(d)
  BY DEF Switches, Queued, Submitted
<1>3. \A d \in Callers \ {c} : stage'[d] = stage[d] /\ result'[d] = result[d]
  BY DEF Switches
<1>4. \A d \in Callers : Entry(d)' = Entry(d) /\ FireAndForget(d)' = FireAndForget(d)
  BY DEF Switches, Entry, FireAndForget
<1>5. "switched" \in Replies /\ "switched" \in Results /\ "switched" # "reply_dropped"
      /\ "switched" \in Declared(Entry(c))
  <2>1. request[c] = "set_model" /\ "switched" \in Entry(c).ok \cup Entry(c).err
    BY <1>1 DEF Switches, Entry, HandleConstants
  <2> QED
    BY <1>1, <2>1, OutcomesAreResults DEF Entry, Declared
<1>6. stage' \in [Callers -> Stages] /\ result' \in [Callers -> Results]
  <2>1. CASE /\ \E s \in SwitchStages : stage' = [stage EXCEPT ![c] = s]
             /\ result' = result
    BY <2>1 DEF Stages
  <2>2. CASE /\ stage' = [stage EXCEPT ![c] = "done"]
             /\ result' = [result EXCEPT ![c] = "switched"]
    BY <1>5, <2>2 DEF Stages
  <2> QED
    BY <2>1, <2>2 DEF Switches
<1>7. EarlyInv'
  <2>1. ASSUME NEW d \in Callers, d # c PROVE EarlyOf(d)'
    BY <1>2, <1>3, <2>1, EarlyUnmoved DEF EarlyInv, Switches
  <2>2. EarlyOf(c)'
    BY <1>1, <1>2, <1>4 DEF EarlyOf, Switches, SwitchStages
  <2> QED
    BY <2>1, <2>2 DEF EarlyInv
<1>8. SubmittedInv'
  BY <1>1, <1>2, <1>3, <1>4 DEF SubmittedInv, Switches
<1>9. AnswerInv'
  <2>1. ASSUME NEW d \in Callers, d # c
        PROVE stage'[d] = stage[d] /\ result'[d] = result[d]
    BY <1>3, <2>1
  <2>2. stage'[c] = "done" => result'[c] = "switched"
    BY DEF Switches, SwitchStages
  <2>3. result'[c] \in {"none", "switched"}
    BY <1>1 DEF Switches
  <2> QED
    BY <1>1, <1>4, <1>5, <2>1, <2>2, <2>3 DEF AnswerInv, Switches
<1> QED
  BY <1>6, <1>7, <1>8, <1>9

LEMMA CatalogKept ==
    ASSUME HandleConstants, HandleInv, NEW c \in Callers, AskCatalog(c) PROVE HandleInv'
<1> USE DEF HandleInv, HandleTypes
<1>1. ~Submitted(c) /\ done[c] = 0 /\ answer[c] = "empty" /\ result[c] = "none"
      /\ request[c] \in DOMAIN Api /\ request[c] # "none"
  BY DEF AskCatalog, EarlyInv, EarlyOf, HandleConstants
<1>2. CASE UNCHANGED <<target, overlap>> /\ stage' = [stage EXCEPT ![c] = "done"]
           /\ \E r \in Entry(c).ok \cup Entry(c).err : result' = [result EXCEPT ![c] = r]
  <2> PICK r \in Entry(c).ok \cup Entry(c).err : result' = [result EXCEPT ![c] = r]
    BY <1>2
  <2>1. r \in Results /\ r # "reply_dropped" /\ r \in Declared(Entry(c))
    <3>1. r \in Results /\ r \notin Reserved
      BY <1>1, OutcomesAreResults DEF Entry
    <3> QED
      BY <3>1 DEF Declared, Reserved, ChannelErrors
  <2>2. Waits(c)
    BY <1>2, <2>1 DEF AskCatalog, Waits, Stages, modelv
  <2>3. Switching' = Switching
    BY <1>2 DEF AskCatalog, Switching
  <2>4. Entry(c)' = Entry(c) /\ request' = request
    BY DEF AskCatalog, Entry
  <2> QED
    BY <1>1, <1>2, <2>1, <2>2, <2>3, <2>4, WaitsKept DEF SwitchStages
<1>3. CASE /\ request[c] = "set_model" /\ stage' = [stage EXCEPT ![c] = "switch 1"]
           /\ result' = result /\ overlap' = (overlap \/ Switching # {})
           /\ \E m \in Models : target' = [target EXCEPT ![c] = m]
  <2>1. Switches(c)
    BY <1>3 DEF AskCatalog, Switches, SwitchStages
  <2>2. HandleTypes'
    <3>1. overlap' \in BOOLEAN /\ target' \in [Callers -> Models \cup {NoModel}]
      BY <1>3
    <3> QED
      BY <2>1, <3>1, SwitchesKept DEF AskCatalog
  <2>3. ModelInv'
    <3> SUFFICES ASSUME ~overlap' PROVE ModelInv'
      BY DEF ModelInv
    <3>1. ~overlap /\ Switching = {}
      BY <1>3
    <3>2. window = provider /\ outputCap = provider
      BY <3>1 DEF ModelInv
    <3>3. \A d \in Switching' : d = c
      BY <1>3, <3>1 DEF Switching
    <3>4. c \in Switching' /\ stage'[c] = "switch 1"
      BY <1>3 DEF Switching
    <3>5. window' = provider' /\ outputCap' = provider'
      BY <3>2 DEF AskCatalog
    <3> QED
      BY <3>3, <3>4, <3>5 DEF ModelInv
  <2> QED
    BY <2>1, <2>2, <2>3, SwitchesKept
<1> QED
  <2>1. request[c] = "list_models" => "models" \in Entry(c).ok
    BY <1>1 DEF Entry, HandleConstants
  <2> QED
    BY <1>2, <1>3, <2>1 DEF AskCatalog, Finish

LEMMA SwapKept ==
    ASSUME HandleConstants, HandleInv, NEW c \in Callers,
           SwapProvider(c) \/ SetWindow(c) \/ SetOutputCap(c)
    PROVE  HandleInv'
<1> USE DEF HandleInv, HandleTypes
<1>1. /\ stage[c] \in SwitchStages /\ c \in Switching /\ target' = target
      /\ overlap' = overlap /\ UNCHANGED <<request, answer, queue, actor, done>>
  BY DEF SwapProvider, SetWindow, SetOutputCap, SwitchStages, Switching
<1>2. target[c] \in Models /\ Switches(c)
  BY <1>1 DEF SwapProvider, SetWindow, SetOutputCap, Finish, Switches, SwitchStages, EarlyInv,
     EarlyOf
<1>3. HandleTypes'
  <2>1. provider' \in Models /\ window' \in Models /\ outputCap' \in Models
    BY <1>2 DEF SwapProvider, SetWindow, SetOutputCap
  <2> QED
    BY <1>1, <1>2, <2>1, SwitchesKept
<1>4. ModelInv'
  <2> SUFFICES ASSUME ~overlap' PROVE ModelInv'
    BY DEF ModelInv
  <2>1. ~overlap /\ \A d \in Switching : d = c
    BY <1>1 DEF ModelInv
  <2>2. \A d \in Switching' : d = c
    BY <1>2, <2>1 DEF Switches, Switching
  <2>3. CASE SwapProvider(c)
    <3>1. c \in Switching' /\ stage'[c] = "switch 2" /\ provider' = target'[c]
      BY <2>3 DEF SwapProvider, Switching
    <3> QED
      BY <2>2, <3>1 DEF ModelInv
  <2>4. CASE SetWindow(c)
    <3>1. c \in Switching' /\ stage'[c] = "switch 3" /\ window' = target'[c] /\ provider' = provider
      BY <2>4 DEF SetWindow, Switching
    <3>2. provider = target[c]
      BY <1>1, <2>1, <2>4 DEF ModelInv, SetWindow
    <3> QED
      BY <1>1, <2>2, <3>1, <3>2 DEF ModelInv
  <2>5. CASE SetOutputCap(c)
    <3>1. Switching' = {}
      BY <2>2, <2>5 DEF SetOutputCap, Finish, Switching
    <3>2. provider = target[c] /\ window = target[c]
      BY <1>1, <2>1, <2>5 DEF ModelInv, SetOutputCap
    <3>3. provider' = provider /\ window' = window /\ outputCap' = target[c]
      BY <2>5 DEF SetOutputCap
    <3> QED
      BY <3>1, <3>2, <3>3 DEF ModelInv
  <2> QED
    BY <2>3, <2>4, <2>5
<1> QED
  BY <1>2, <1>3, <1>4, SwitchesKept

LEMMA HandleKept == ASSUME HandleConstants, HandleInv, [Next]_vars PROVE HandleInv'
<1>1. ASSUME NEW c \in Callers, CallerStep(c) PROVE HandleInv'
  BY <1>1, AskKept, DecodeKept, SendKept, ReturnKept, CatalogKept, SwapKept DEF CallerStep
<1>2. CASE ActorStep
  BY <1>2, TakeKept, DispatchPerforms, PerformsKept, LoopEndsKept DEF ActorStep
<1>3. CASE UNCHANGED vars
  <2>1. UNCHANGED <<stage, request, answer, result, queue, actor, done>> /\ UNCHANGED modelv
    BY <1>3 DEF vars, callv
  <2>2. UNCHANGED <<provider, window, outputCap, target, overlap>>
    BY <2>1 DEF modelv
  <2>3. Switching' = Switching /\ \A d : Queued(d)' = Queued(d) /\ Submitted(d)' = Submitted(d)
    BY <2>1 DEF Switching, Queued, Submitted
  <2>4. \A d : Entry(d)' = Entry(d) /\ FireAndForget(d)' = FireAndForget(d)
    BY <2>1 DEF Entry, FireAndForget
  <2>5. HandleTypes' /\ EarlyInv' /\ SubmittedInv' /\ AnswerInv'
    BY <2>1, <2>2, <2>3, <2>4, EarlyUnmoved
       DEF HandleInv, HandleTypes, EarlyInv, SubmittedInv, AnswerInv
  <2>6. ModelInv'
    BY <2>1, <2>3, ModelsKept DEF HandleInv
  <2> QED
    BY <2>5, <2>6 DEF HandleInv
<1> QED
  BY <1>1, <1>2, <1>3 DEF Next

LEMMA HandleImplies == HandleInv => TypeOK /\ HandleConsistent
<1> SUFFICES ASSUME HandleInv PROVE TypeOK /\ HandleConsistent
  OBVIOUS
<1>1. TypeOK
  BY DEF HandleInv, HandleTypes, EarlyInv, EarlyOf, AnswerInv, TypeOK
<1>2. HandleConsistent
  BY DEF HandleInv, AnswerInv, ModelInv, HandleConsistent, DropsOnlyAtStop, LimitsMatchModel
<1> QED
  BY <1>1, <1>2

(* A reply is dropped only when the actor's loop has ended, every result a   *)
(* client is told is one its request declares, and the limits in force are   *)
(* those of the active model once no switch runs, unless two overlapped.     *)
THEOREM HandleIsConsistent ==
    ASSUME HandleConstants PROVE Spec => [](TypeOK /\ HandleConsistent)
<1>1. Init => HandleInv
  BY HandleStarts
<1>2. HandleInv /\ [Next]_vars => HandleInv'
  BY HandleKept
<1> QED
  BY <1>1, <1>2, HandleImplies, PTL DEF Spec

-----------------------------------------------------------------------------
(* The refinement of RemoteCalls.  A step moves at most one caller's call,   *)
(* in one of the ways of the abstract specification.                         *)
Moves(c) ==
    \/ CallState(c)' = CallState(c) /\ Executed(c)' = Executed(c)
    \/ CallState(c) = "new" /\ CallState(c)' = "open" /\ Executed(c)' = Executed(c)
    \/ /\ CallState(c) \in {"open", "failed"} /\ CallState(c)' = CallState(c)
       /\ Executed(c) = 0 /\ Executed(c)' = 1
    \/ /\ CallState(c) = "open" /\ CallState(c)' = "answered"
       /\ Executed(c) = 1 /\ Executed(c)' = 1
    \/ /\ CallState(c) = "open" /\ CallState(c)' = "refused"
       /\ Executed(c) = 0 /\ Executed(c)' = 0
    \/ CallState(c) = "open" /\ CallState(c)' = "failed" /\ Executed(c)' = Executed(c)

LEMMA AbstractStep ==
    ASSUME NEW c \in Callers, Moves(c),
           \A d \in Callers \ {c} : CallState(d)' = CallState(d) /\ Executed(d)' = Executed(d)
    PROVE  [Remote!Next]_(Remote!vars)
<1> DEFINE st == [d \in Callers |-> CallState(d)]
           ex == [d \in Callers |-> Executed(d)]
<1>1. /\ st' = [st EXCEPT ![c] = CallState(c)'] /\ ex' = [ex EXCEPT ![c] = Executed(c)']
      /\ st[c] = CallState(c) /\ ex[c] = Executed(c)
  OBVIOUS
<1>2. CallState(c)' = CallState(c) => st' = st
  OBVIOUS
<1>3. Executed(c)' = Executed(c) => ex' = ex
  OBVIOUS
<1> HIDE DEF st, ex
<1>4. [\E d \in Callers : \/ st[d] = "new" /\ st' = [st EXCEPT ![d] = "open"] /\ ex' = ex
                          \/ /\ st[d] \in {"open", "failed"} /\ ex[d] = 0
                             /\ ex' = [ex EXCEPT ![d] = 1] /\ st' = st
                          \/ /\ st[d] = "open" /\ ex[d] = 1
                             /\ st' = [st EXCEPT ![d] = "answered"] /\ ex' = ex
                          \/ /\ st[d] = "open" /\ ex[d] = 0
                             /\ st' = [st EXCEPT ![d] = "refused"] /\ ex' = ex
                          \/ st[d] = "open" /\ st' = [st EXCEPT ![d] = "failed"] /\ ex' = ex]_<<st, ex>>
  BY <1>1, <1>2, <1>3 DEF Moves
<1> USE DEF st, ex
<1> QED
  BY <1>4 DEF Remote!Next, Remote!Issue, Remote!Execute, Remote!Answer, Remote!Refuse,
     Remote!Fail, Remote!To, Remote!vars

LEMMA CallUnmoved ==
    ASSUME NEW c \in Callers, stage'[c] = stage[c], result'[c] = result[c],
           request'[c] = request[c], done'[c] = done[c]
    PROVE  CallState(c)' = CallState(c) /\ Executed(c)' = Executed(c)
  BY DEF CallState, Executed, Awaited, Entry, FireAndForget

(* The state of a call, case by case                                         *)
Open == {"params", "sending", "waiting"}
Refused == {"invalid_params", "actor_stopped", "reply_dropped"}
LEMMA StateNow ==
    ASSUME NEW c \in Callers
    PROVE  /\ ~Awaited(c) => CallState(c) = "new" /\ Executed(c) = 0
           /\ Awaited(c) => Executed(c) = done[c]
           /\ Awaited(c) /\ stage[c] \in Open => CallState(c) = "open"
           /\ Awaited(c) /\ stage[c] \notin Open =>
                 /\ result[c] \in Refused => CallState(c) = "refused"
                 /\ result[c] = "reply_timed_out" => CallState(c) = "failed"
                 /\ result[c] \notin Refused \cup {"reply_timed_out"} =>
                       CallState(c) = "answered"
  BY DEF CallState, Executed, Open, Refused

LEMMA StateNext ==
    ASSUME NEW c \in Callers
    PROVE  /\ ~Awaited(c)' => CallState(c)' = "new" /\ Executed(c)' = 0
           /\ Awaited(c)' => Executed(c)' = done'[c]
           /\ Awaited(c)' /\ stage'[c] \in Open => CallState(c)' = "open"
           /\ Awaited(c)' /\ stage'[c] \notin Open =>
                 /\ result'[c] \in Refused => CallState(c)' = "refused"
                 /\ result'[c] = "reply_timed_out" => CallState(c)' = "failed"
                 /\ result'[c] \notin Refused \cup {"reply_timed_out"} =>
                       CallState(c)' = "answered"
  BY DEF CallState, Executed, Open, Refused

(* A request that is still with its caller is open and was not carried out   *)
LEMMA CallerMoves ==
    ASSUME HandleConstants, HandleInv, NEW c \in Callers, CallerStep(c)
    PROVE  /\ Moves(c)
           /\ \A d \in Callers \ {c} : CallState(d)' = CallState(d) /\ Executed(d)' = Executed(d)
<1>0. /\ HandleTypes /\ EarlyInv /\ AnswerInv /\ SubmittedInv
      /\ stage \in [Callers -> Stages] /\ result \in [Callers -> Results]
      /\ request \in [Callers -> DOMAIN Api \cup {"none"}] /\ done \in [Callers -> Nat]
  BY DEF HandleInv, HandleTypes
<1>1. \A d \in Callers \ {c} : /\ stage'[d] = stage[d] /\ result'[d] = result[d]
                               /\ request'[d] = request[d] /\ done'[d] = done[d]
  BY <1>0 DEF CallerStep, Ask, Decode, Send, Return, Timeout, AskCatalog, SwapProvider, SetWindow,
     SetOutputCap, Finish
<1>2. \A d \in Callers \ {c} : CallState(d)' = CallState(d) /\ Executed(d)' = Executed(d)
  BY <1>0, <1>1, CallUnmoved
<1>3. done' = done
  BY <1>0 DEF CallerStep, Ask, Decode, Send, Return, Timeout, AskCatalog, SwapProvider, SetWindow,
     SetOutputCap
<1>4. ASSUME NEW call \in Requests[c], Ask(c, call) PROVE Moves(c)
  <2>1. ~Awaited(c) /\ done'[c] = 0 /\ stage'[c] = "params"
    BY <1>0, <1>3, <1>4 DEF Ask, EarlyInv, EarlyOf, Awaited
  <2> QED
    BY <1>0, <2>1, StateNow, StateNext DEF Moves, Open
<1>5. ASSUME request' = request PROVE Awaited(c)' <=> Awaited(c)
  BY <1>0, <1>5 DEF Awaited, Entry, FireAndForget
<1>6. ASSUME request' = request, ~Awaited(c) PROVE Moves(c)
  BY <1>0, <1>5, <1>6, StateNow, StateNext DEF Moves
<1>7. ASSUME request' = request, Awaited(c), Decode(c) \/ Send(c) PROVE Moves(c)
  <2>1. stage[c] \in {"params", "sending"} /\ done[c] = 0
    BY <1>0, <1>7 DEF Decode, Send, EarlyInv, EarlyOf
  <2>2. \/ stage'[c] \in {"sending", "waiting"}
        \/ stage'[c] = "done" /\ result'[c] \in {"invalid_params", "actor_stopped"}
    BY <1>0, <1>7 DEF Decode, Send, Finish, Awaited
  <2>3. CallState(c) = "open" /\ Executed(c) = 0 /\ Executed(c)' = 0
    BY <1>0, <1>3, <1>5, <1>7, <2>1, StateNow, StateNext DEF Open
  <2>4. CallState(c)' \in {"open", "refused"}
    BY <1>0, <1>5, <1>7, <2>2, StateNext DEF Open, Refused
  <2> QED
    BY <1>0, <2>3, <2>4 DEF Moves
<1>8. ASSUME request' = request, Awaited(c), Return(c) \/ Timeout(c) PROVE Moves(c)
  <2>1. CallState(c) = "open" /\ Executed(c) = done[c] /\ Executed(c)' = done[c]
    BY <1>0, <1>3, <1>5, <1>8, StateNow, StateNext DEF Return, Timeout, Open
  <2>2. CASE Timeout(c)
    <3>1. CallState(c)' = "failed"
      BY <1>0, <1>5, <1>8, <2>2, StateNext DEF Timeout, Finish, Open, Refused
    <3> QED
      BY <1>0, <2>1, <3>1 DEF Moves
  <2>3. CASE Return(c) /\ answer[c] = "dropped"
    <3>1. CallState(c)' = "refused"
      BY <1>0, <1>5, <1>8, <2>3, StateNext DEF Return, Finish, Open, Refused
    <3>2. done[c] = 0
      BY <1>0, <2>3 DEF AnswerInv
    <3> QED
      BY <1>0, <2>1, <3>1, <3>2 DEF Moves
  <2>4. CASE Return(c) /\ answer[c] # "dropped"
    <3>1. done[c] = 1 /\ answer[c] \in Entry(c).ok \cup Entry(c).err /\ request[c] \in DOMAIN Api
      BY <1>0, <1>8, <2>4 DEF Return, AnswerInv, Awaited
    <3>2. answer[c] \notin Reserved
      BY <1>0, <3>1, OutcomesAreResults DEF Entry
    <3>3. stage'[c] = "done" /\ result'[c] = answer[c]
      BY <1>0, <2>4 DEF Return, Finish
    <3>4. CallState(c)' = "answered"
      BY <1>0, <1>5, <1>8, <3>2, <3>3, StateNext DEF Open, Refused, Reserved, ChannelErrors
    <3> QED
      BY <1>0, <2>1, <3>1, <3>4 DEF Moves
  <2> QED
    BY <1>0, <1>8, <2>2, <2>3, <2>4
<1>9. ASSUME AskCatalog(c) \/ SwapProvider(c) \/ SetWindow(c) \/ SetOutputCap(c)
      PROVE  Moves(c)
  <2>1. request' = request /\ Entry(c).sub = "none"
    BY <1>0, <1>9 DEF AskCatalog, SwapProvider, SetWindow, SetOutputCap, EarlyInv, EarlyOf, SwitchStages
  <2> QED
    BY <1>0, <1>6, <2>1 DEF Awaited
<1>10. Decode(c) \/ Send(c) \/ Return(c) \/ Timeout(c) => request' = request
  BY <1>0 DEF Decode, Send, Return, Timeout
<1> QED
  BY <1>0, <1>2, <1>4, <1>6, <1>7, <1>8, <1>9, <1>10 DEF CallerStep

(* The actor carries out a submission that is still open, or was given up    *)
LEMMA ActorMoves ==
    ASSUME HandleConstants, HandleInv, NEW out, Performs(out) PROVE [Remote!Next]_(Remote!vars)
<1>0. /\ HandleTypes /\ EarlyInv /\ AnswerInv /\ SubmittedInv
      /\ stage \in [Callers -> Stages] /\ result \in [Callers -> Results]
      /\ request \in [Callers -> DOMAIN Api \cup {"none"}] /\ done \in [Callers -> Nat]
  BY DEF HandleInv, HandleTypes
<1> PICK c \in Callers : c = actor
  BY <1>0 DEF Performs
<1>1. /\ \A d \in Callers \ {c} : done'[d] = done[d] /\ done'[c] = done[c] + 1
      /\ stage' = stage /\ result' = result /\ request' = request
  BY <1>0 DEF Performs
<1>2. \A d \in Callers \ {c} : CallState(d)' = CallState(d) /\ Executed(d)' = Executed(d)
  BY <1>0, <1>1, CallUnmoved
<1>3. /\ done[c] = 0 /\ done'[c] = 1
      /\ FireAndForget(c) \/ stage[c] = "waiting" \/ result[c] = "reply_timed_out"
  BY <1>0 DEF Performs, SubmittedInv, Submitted
<1>4. (Awaited(c)' <=> Awaited(c)) /\ CallState(c)' = CallState(c)
  BY <1>0, <1>1 DEF Awaited, Entry, FireAndForget, CallState
<1>5. CASE ~Awaited(c)
  BY <1>0, <1>2, <1>4, <1>5, AbstractStep, StateNow, StateNext DEF Moves
<1>6. CASE Awaited(c)
  <2>1. CallState(c) \in {"open", "failed"}
    <3>1. stage[c] = "waiting" \/ result[c] = "reply_timed_out"
      BY <1>0, <1>3, <1>6 DEF Awaited
    <3>2. stage[c] \in Open \/ stage[c] \notin Open
      OBVIOUS
    <3> QED
      BY <1>0, <1>6, <3>1, <3>2, StateNow DEF Open, Refused
  <2>2. Executed(c) = 0 /\ Executed(c)' = 1
    BY <1>0, <1>3, <1>4, <1>6, StateNow, StateNext
  <2>3. Moves(c)
    BY <1>0, <1>4, <2>1, <2>2 DEF Moves
  <2> QED
    BY <1>0, <1>2, <2>3, AbstractStep
<1> QED
  BY <1>0, <1>5, <1>6

LEMMA RemoteStarts == ASSUME Init PROVE Remote!Init
  BY DEF Init, Remote!Init, CallState, Executed, Awaited

LEMMA HandleRefines ==
    ASSUME HandleConstants, HandleInv, [Next]_vars PROVE [Remote!Next]_(Remote!vars)
<1>1. ASSUME NEW c \in Callers, CallerStep(c) PROVE [Remote!Next]_(Remote!vars)
  BY <1>1, CallerMoves, AbstractStep
<1>2. CASE Dispatch \/ BeginShutdown
  BY <1>2, DispatchPerforms, ActorMoves
<1>3. CASE Take \/ LoopEnds \/ UNCHANGED vars
  <2>1. UNCHANGED <<stage, result, request, done>>
    BY <1>3 DEF Take, LoopEnds, vars, callv
  <2>2. \A c \in Callers : CallState(c)' = CallState(c) /\ Executed(c)' = Executed(c)
    BY <2>1, CallUnmoved
  <2> QED
    BY <2>2 DEF Remote!vars
<1> QED
  BY <1>1, <1>2, <1>3 DEF Next, ActorStep

(* The engine handle implements calls that are carried out at most once, for *)
(* every caller and through timeouts and shutdown.                           *)
THEOREM HandleIsAtMostOnce == ASSUME HandleConstants PROVE Spec => HandleAtMostOnce
<1>1. Init => HandleInv
  BY HandleStarts
<1>2. HandleInv /\ [Next]_vars => HandleInv'
  BY HandleKept
<1>3. Init => Remote!Init
  BY RemoteStarts
<1>4. HandleInv /\ [Next]_vars => [Remote!Next]_(Remote!vars)
  BY HandleRefines
<1> QED
  BY <1>1, <1>2, <1>3, <1>4, PTL DEF Spec, HandleAtMostOnce, Remote!Spec
=============================================================================
