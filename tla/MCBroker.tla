------------------------------ MODULE MCBroker ------------------------------
(* A small instance of the inference broker for TLC.                       *)
EXTENDS Broker, TLC

CONSTANTS c1, c2, ocr, asr, vlm, none

\* ocr and asr fit together, and vlm beside one of them.
MCVram == [m \in Installed |-> IF m = vlm THEN 2 ELSE 1]

\* Every kind of request; the faults a pack can meet with one pack alone.
MCRequests ==
  [type : {"models"}, model : {none}, fault : {"none", "protocol"}]
    \cup [type : {"load"}, model : {none, ocr}, fault : {"none"}]
    \cup [type : {"unload"}, model : {ocr}, fault : {"none"}]
    \cup [type : {"infer"}, model : {ocr}, fault : {"pack", "input"}]
    \cup [type : {"infer"}, model : Installed, fault : {"none"}]
=============================================================================
