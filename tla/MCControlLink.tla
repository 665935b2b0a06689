---------------------------- MODULE MCControlLink ----------------------------
(* Instances of ControlLink for TLC: what a test manager asks. *)
EXTENDS ControlLink

\* What a device answers at once, what it answers later, what it answers in part and
\* what does not reach it.
AnsweredKinds == {"config", "recvStart", "send", "recvStop", "recvStopBad", "typo"}

\* What only the device can answer.
DeviceKinds == AnsweredKinds \ {"typo"}

RejectedKinds == {"config", "sendBad"}
=============================================================================
