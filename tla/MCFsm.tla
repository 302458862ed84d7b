-------------------------------- MODULE MCFsm --------------------------------
(* Instances of T7xxFsm for TLC: how the device groups its interrupts.       *)
EXTENDS T7xxFsm

(* The handshake interrupts of a boot are all set when the host first looks  *)
JointInts == {HandshakeInts, {"EX_INIT"}, {"EX_INIT_DONE", "EX_CLEARQ_DONE"}, {"EX_ALLQ_RESET"}}
=============================================================================
