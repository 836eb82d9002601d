------------------------------- MODULE Broker -------------------------------
(***************************************************************************)
(* The inference broker of runtime/tensorrt: one process that admits model *)
(* workers to the memory of one GPU and answers the adapters over a local  *)
(* socket.                                                                 *)
(*                                                                         *)
(* A connection has a thread of its own and one request under way; every   *)
(* thread handles its request under one mutex, which it keeps while the    *)
(* worker process loads its model and computes.  A worker reads and writes *)
(* frames on two pipes, may exit at any moment, and may answer what the    *)
(* protocol does not allow.                                                *)
(***************************************************************************)
EXTENDS Naturals, Sequences, FiniteSetsExt

CONSTANTS
  Connections,  \* client connections; each numbers its requests from 1
  Installed,    \* the model packs Broker::discover verified
  Unknown,      \* a model name no pack carries
  Vram,         \* estimated_vram_bytes of each pack
  Budget,       \* vram_budget
  Persistent,   \* packs whose worker keeps an engine process of its own (OCR)
  Requests,     \* the requests the clients make
  MaxRequests   \* bound: requests of all connections

ASSUME FiniteAssumption == IsFiniteSet(Connections) /\ IsFiniteSet(Installed)
ASSUME UnknownAssumption == Unknown \notin Installed
ASSUME VramAssumption == Vram \in [Installed -> Nat \ {0}]   \* ModelManifest::verify
ASSUME BudgetAssumption == Budget \in Nat
ASSUME PersistentAssumption == Persistent \subseteq Installed
ASSUME MaxRequestsAssumption == MaxRequests \in Nat

VARIABLES
  stage,       \* how far the request of a connection has come
  request,     \* the request under way
  sent,        \* requests sent: the identifier of the last one
  answer,      \* the response written to the socket
  resident,    \* models with a worker in the broker's table
  lastUsed,    \* value of the clock when a resident model was last used
  clock,
  failed,      \* ProcessWorker::failed
  process,     \* the worker process of a model
  broken,      \* the engine behind the worker gave up (TurboOcr::failed)
  toWorker,    \* frames on a worker's standard input
  fromWorker   \* frames on a worker's standard output

clients == <<request, sent>>
table == <<resident, lastUsed, clock, failed>>
workers == <<process, broken, toWorker, fromWorker>>
vars == <<stage, answer, clients, table, workers>>

Names == Installed \cup {Unknown}
\* What is wrong with a request: nothing, its protocol version, the revision
\* or the operation it asks of the pack, or the input the worker will find.
\* Only an inference brings an input.
AllRequests ==
  {r \in [type : {"models", "load", "unload", "infer"}, model : Names,
          fault : {"none", "protocol", "pack", "input"}] :
     r.fault = "input" => r.type = "infer"}
ASSUME RequestsAssumption == Requests \subseteq AllRequests
NoRequest == [type |-> "models", model |-> Unknown, fault |-> "none"]
Stages == {"idle", "sent", "loading", "loaded", "asked", "answered"}
\* Whose request a frame belongs to, for the properties: the code knows its id.
Owner(c) == <<c, sent[c]>>
Owners == Connections \X (1 .. MaxRequests)
Frames == [id : 1 .. MaxRequests, owner : Owners, type : {"load", "infer"}, sound : BOOLEAN]
Replies == [id : 1 .. MaxRequests, owner : Owners, ok : BOOLEAN, wellFormed : BOOLEAN]
NoOwner == <<>>
Answers == [ok : BOOLEAN, owner : Owners \cup {NoOwner}]
Refused == [ok |-> FALSE, owner |-> NoOwner]
Granted == [ok |-> TRUE, owner |-> NoOwner]

Init ==
  /\ stage = [c \in Connections |-> "idle"]
  /\ request = [c \in Connections |-> NoRequest]
  /\ sent = [c \in Connections |-> 0]
  /\ answer = [c \in Connections |-> Refused]
  /\ resident = {}
  /\ lastUsed = [m \in Installed |-> 0]
  /\ clock = 0
  /\ failed = [m \in Installed |-> FALSE]
  /\ process = [m \in Installed |-> "none"]
  /\ broken = [m \in Installed |-> FALSE]
  /\ toWorker = [m \in Installed |-> <<>>]
  /\ fromWorker = [m \in Installed |-> <<>>]

Used(models) == MapThenSumSet(LAMBDA m : Vram[m], models)

----------------------------------------------------------------------------
(* Client::request.  A response always carries the identifier of its       *)
(* request: the broker copies it.  An adapter that is killed stops taking   *)
(* these steps; the thread of its connection finishes all the same.         *)

Send(c, r) ==
  /\ stage[c] = "idle"
  /\ MapThenSumSet(LAMBDA d : sent[d], Connections) < MaxRequests
  /\ stage' = [stage EXCEPT ![c] = "sent"]
  /\ sent' = [sent EXCEPT ![c] = @ + 1]
  /\ request' = [request EXCEPT ![c] = r]
  /\ UNCHANGED <<answer, table, workers>>

Receive(c) ==
  /\ stage[c] = "answered"
  /\ stage' = [stage EXCEPT ![c] = "idle"]
  /\ answer' = [answer EXCEPT ![c] = Refused]
  /\ request' = [request EXCEPT ![c] = NoRequest]
  /\ UNCHANGED <<sent, table, workers>>

----------------------------------------------------------------------------
(* The thread of a connection: serve and Broker::handle.                   *)

\* Mutant: the mutex is given up while a worker computes.
NobodyWaitsForIt == TRUE

MutexIsFree == \A c \in Connections : stage[c] \notin {"loading", "loaded", "asked"}

Model(c) == request[c].model
Handles(c) == stage[c] = "sent" /\ MutexIsFree
NeedsWorker(r) == r.type \in {"load", "infer"}
\* Errors found before a worker or the table is touched.
IsRefused(r) ==
  \/ r.fault = "protocol"
  \/ NeedsWorker(r) /\ r.model \notin Installed
  \/ r.fault = "pack"
  \/ NeedsWorker(r) /\ r.model \in Installed \ resident /\ Vram[r.model] > Budget

Answer(c, a) ==
  /\ stage' = [stage EXCEPT ![c] = "answered"]
  /\ answer' = [answer EXCEPT ![c] = a]
  /\ UNCHANGED clients

\* Health, Models, a refusal, or Load of a model that is resident already.
HandleAtOnce(c) ==
  /\ Handles(c)
  /\ \/ IsRefused(request[c]) /\ Answer(c, Refused)
     \/ /\ ~IsRefused(request[c])
        /\ \/ request[c].type = "models"
           \/ request[c].type = "load" /\ Model(c) \in resident
        /\ Answer(c, Granted)
  /\ UNCHANGED <<table, workers>>

\* ProcessWorker::drop kills the process and waits for its end.
Without(f, models, nothing) == [m \in Installed |-> IF m \in models THEN nothing ELSE f[m]]
Kill(models) ==
  /\ process' = Without(process, models, "none")
  /\ toWorker' = Without(toWorker, models, <<>>)
  /\ fromWorker' = Without(fromWorker, models, <<>>)
  /\ broken' = Without(broken, models, FALSE)
  /\ failed' = Without(failed, models, FALSE)

HandleUnload(c) ==
  /\ Handles(c)
  /\ request[c].type = "unload" /\ ~IsRefused(request[c])
  /\ resident' = resident \ {Model(c)}
  /\ Kill({Model(c)} \cap resident)
  /\ lastUsed' = Without(lastUsed, {Model(c)}, 0)
  /\ Answer(c, Granted)
  /\ UNCHANGED clock

Oldest(models) == CHOOSE m \in models : \A n \in models : lastUsed[m] <= lastUsed[n]

\* Mutant: room is made for the models that are there, not for the next one.
KeptWithoutRoom(model) ==
  LET keep[models \in SUBSET resident] ==
        IF Used(models) <= Budget THEN models ELSE keep[models \ {Oldest(models)}]
  IN  keep[resident]

\* ensure_resident: the models that stay when room is made for another one.
Kept(model) ==
  LET keep[models \in SUBSET resident] ==
        IF Used(models) + Vram[model] <= Budget THEN models ELSE keep[models \ {Oldest(models)}]
  IN  keep[resident]

Frame(c, type) ==
  [id |-> sent[c], owner |-> Owner(c), type |-> type, sound |-> request[c].fault # "input"]

\* ensure_resident evicts, then ProcessWorker::start spawns and asks for the
\* load probe under the identifier of the request.
BeginLoad(c) ==
  /\ Handles(c)
  /\ NeedsWorker(request[c]) /\ ~IsRefused(request[c])
  /\ Model(c) \notin resident
  /\ resident' = Kept(Model(c))
  /\ LET m == Model(c)
         evicted == resident \ Kept(m)
     IN  /\ lastUsed' = Without(lastUsed, evicted, 0)
         /\ \/ /\ process' = [Without(process, evicted, "none") EXCEPT ![m] = "running"]
               /\ toWorker' =
                    [Without(toWorker, evicted, <<>>) EXCEPT ![m] = <<Frame(c, "load")>>]
               /\ fromWorker' = Without(fromWorker, evicted, <<>>)
               /\ broken' = Without(broken, evicted, FALSE)
               /\ failed' = Without(failed, evicted, FALSE)
               /\ stage' = [stage EXCEPT ![c] = "loading"]
               /\ UNCHANGED <<answer, clients>>
            \/ \* the process cannot be spawned: what was evicted stays evicted
               Kill(evicted) /\ Answer(c, Refused)
  /\ UNCHANGED clock

Use(m) ==
  /\ clock' = clock + 1
  /\ lastUsed' = [lastUsed EXCEPT ![m] = clock + 1]

\* Mutant: a thread reads whole frames and never sees the end of the pipe.
OnlyFrames(m) == fromWorker[m] # <<>>

\* What reading the answer of a worker gives: a frame, or the end of the pipe.
CanRead(m) == fromWorker[m] # <<>> \/ process[m] = "exited"
ReadsReply(m, id) ==
  fromWorker[m] # <<>> /\ Head(fromWorker[m]).wellFormed /\ Head(fromWorker[m]).id = id
Consume(m) ==
  fromWorker' = IF fromWorker[m] = <<>> THEN fromWorker ELSE [fromWorker EXCEPT ![m] = Tail(@)]

FinishLoad(c) ==
  LET m == Model(c) IN
  /\ stage[c] = "loading" /\ CanRead(m)
  /\ IF ReadsReply(m, sent[c]) /\ Head(fromWorker[m]).ok
     THEN /\ resident' = resident \cup {m}
          /\ Use(m)
          /\ Consume(m)
          /\ \/ /\ request[c].type = "load"
                /\ Answer(c, [Granted EXCEPT !.owner = Head(fromWorker[m]).owner])
             \/ /\ request[c].type = "infer"
                /\ stage' = [stage EXCEPT ![c] = "loaded"]
                /\ UNCHANGED <<answer, clients>>
          /\ UNCHANGED <<process, broken, failed, toWorker>>
     ELSE /\ Kill({m})
          /\ Answer(c, Refused)
          /\ UNCHANGED <<resident, lastUsed, clock>>

\* The model is resident: the request goes to its worker, unless the worker
\* failed before or its pipe is broken.
Ask(c) ==
  LET m == Model(c) IN
  /\ \/ stage[c] = "loaded"
     \/ Handles(c) /\ request[c].type = "infer" /\ ~IsRefused(request[c])
  /\ m \in resident
  /\ Use(m)
  /\ \/ /\ ~failed[m] /\ process[m] = "running"
        /\ toWorker' = [toWorker EXCEPT ![m] = Append(@, Frame(c, "infer"))]
        /\ stage' = [stage EXCEPT ![c] = "asked"]
        /\ UNCHANGED <<answer, clients, failed>>
     \/ /\ failed[m] \/ process[m] # "running"
        /\ failed' = [failed EXCEPT ![m] = TRUE]
        /\ Answer(c, Refused)
        /\ UNCHANGED toWorker
  /\ UNCHANGED <<resident, process, broken, fromWorker>>

ReadAnswer(c) ==
  LET m == Model(c) IN
  /\ stage[c] = "asked" /\ CanRead(m)
  /\ Consume(m)
  /\ failed' = [failed EXCEPT ![m] = @ \/ ~ReadsReply(m, sent[c])]
  /\ IF ReadsReply(m, sent[c]) /\ Head(fromWorker[m]).ok
     THEN Answer(c, [Granted EXCEPT !.owner = Head(fromWorker[m]).owner])
     ELSE Answer(c, Refused)
  /\ UNCHANGED <<resident, lastUsed, clock, process, broken, toWorker>>
----------------------------------------------------------------------------
(* The worker process: serve and dispatch of the worker programs.          *)

\* The load probe may fail; an inference fails on its input, with an engine
\* that gave up before, or because the engine gives up now.
MaySucceed(m, f) == f.type = "load" \/ (f.sound /\ ~broken[m])
\* TurboOcr keeps one engine process and never asks it again after a failure;
\* the speech worker starts an engine for every request.
GivesUp(m, f, ok) == m \in Persistent /\ f.type = "infer" /\ f.sound /\ ~ok

WorkerAnswers(m) ==
  LET f == Head(toWorker[m]) IN
  /\ process[m] = "running" /\ toWorker[m] # <<>>
  /\ toWorker' = [toWorker EXCEPT ![m] = Tail(@)]
  /\ \E ok \in BOOLEAN :
       /\ ok => MaySucceed(m, f)
       /\ fromWorker' = [fromWorker EXCEPT ![m] =
            Append(@, [id |-> f.id, owner |-> f.owner, ok |-> ok, wellFormed |-> TRUE])]
       /\ broken' = [broken EXCEPT ![m] = @ \/ GivesUp(m, f, ok)]
  /\ UNCHANGED <<stage, answer, clients, table, process>>

\* Not JSON, another version, a binary attachment.
WorkerGarbles(m) ==
  LET f == Head(toWorker[m]) IN
  /\ process[m] = "running" /\ toWorker[m] # <<>>
  /\ toWorker' = [toWorker EXCEPT ![m] = Tail(@)]
  /\ fromWorker' = [fromWorker EXCEPT ![m] =
       Append(@, [id |-> f.id, owner |-> f.owner, ok |-> FALSE, wellFormed |-> FALSE])]
  /\ UNCHANGED <<stage, answer, clients, table, process, broken>>

WorkerExits(m) ==
  /\ process[m] = "running"
  /\ process' = [process EXCEPT ![m] = "exited"]
  /\ UNCHANGED <<stage, answer, clients, table, broken, toWorker, fromWorker>>

----------------------------------------------------------------------------

Thread(c) ==
  \/ HandleAtOnce(c) \/ HandleUnload(c) \/ BeginLoad(c)
  \/ FinishLoad(c) \/ Ask(c) \/ ReadAnswer(c)
Worker(m) == WorkerAnswers(m) \/ WorkerGarbles(m) \/ WorkerExits(m)

Next ==
  \/ \E c \in Connections : (\E r \in Requests : Send(c, r)) \/ Receive(c) \/ Thread(c)
  \/ \E m \in Installed : Worker(m)

Spec == Init /\ [][Next]_vars

\* A thread that can go on does, and a worker with a request answers it or
\* exits: the broker has no timeout, a worker that does neither stops it.
Answering(m) == WorkerAnswers(m) \/ WorkerGarbles(m)
FairSpec ==
  /\ Spec
  /\ \A c \in Connections : WF_vars(Thread(c))
  /\ \A m \in Installed : WF_vars(Answering(m))

----------------------------------------------------------------------------
(* Properties                                                              *)

\* Every variable holds what the broker keeps there, a resident model has a
\* worker in the table, and at most one thread is inside Broker::handle.
TypeOK ==
  /\ stage \in [Connections -> Stages]
  /\ request \in [Connections -> AllRequests]
  /\ sent \in [Connections -> 0 .. MaxRequests]
  /\ answer \in [Connections -> Answers]
  /\ resident \subseteq Installed
  /\ lastUsed \in [Installed -> Nat]
  /\ clock \in Nat
  /\ failed \in [Installed -> BOOLEAN]
  /\ process \in [Installed -> {"none", "running", "exited"}]
  /\ broken \in [Installed -> BOOLEAN]
  /\ toWorker \in [Installed -> Seq(Frames)]
  /\ fromWorker \in [Installed -> Seq(Replies)]

\* The workers alive, the one whose load probe is still running included, never
\* claim more device memory than the budget (Broker::ensure_resident).
WithinBudget == Used({m \in Installed : process[m] = "running"}) <= Budget

\* A client never gets the answer to somebody else's request, nor to an earlier
\* one of its own, although every connection numbers its requests from 1; and
\* what a worker computed is given out for a request nothing was wrong with
\* (ResponseEnvelope::validate, ProcessWorker::request, the mutex of serve).
AnswersAreOwn ==
  \A c \in Connections : stage[c] = "answered" /\ answer[c].ok =>
    /\ answer[c].owner \in {NoOwner, Owner(c)}
    /\ request[c].fault = "none"
    /\ request[c].type = "infer" => answer[c].owner = Owner(c)

\* Every request a thread has read is answered, whatever the workers do short of
\* staying silent, also when the client that asked is gone (serve).
EveryRequestIsAnswered ==
  \A c \in Connections : stage[c] = "sent" ~> stage[c] = "answered"

\* A successful Load means that the worker of the model answers: protocol.rs says
\* "Load and probe a model" of the request.  It does not hold: ensure_resident
\* leaves a resident worker alone, also one that has failed since.
LoadedIsUsable ==
  [][\A c \in Connections :
       stage[c] # "answered" /\ stage'[c] = "answered" /\ request[c].type = "load"
         /\ answer'[c].ok => ~failed'[Model(c)]]_vars
=============================================================================
