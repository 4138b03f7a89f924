------------------------ MODULE MCCentralLifecycle ------------------------
(* Instances of CentralLifecycle for TLC. *)
EXTENDS CentralLifecycle
CONSTANTS hmip, virt
\* the backend lists both interfaces, only the primary one, or not the primary one
AnyListing == {{hmip, virt}, {hmip}, {virt}}
=============================================================================
