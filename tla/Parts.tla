-------------------------------- MODULE Parts --------------------------------
(***************************************************************************)
(* The services around the robots share nothing but the host.  They are    *)
(* put side by side in Services and Hosts, so that one model has them all; *)
(* in a behaviour one part is at work and the others rest.                 *)
(***************************************************************************)

CONSTANTS MaxFaults,     \* failing steps, crashes
          MaxRestarts    \* restarted processes

VARIABLE part            \* the part at work
=============================================================================
