----------------------------- MODULE SafeUpdate -----------------------------
(***************************************************************************)
(* What the firmware update promises, with no flash and no steps: there is *)
(* at every moment one application the next boot starts; booting, however  *)
(* often it is interrupted, does not change which; and while an            *)
(* application runs there is always one.                                   *)
(***************************************************************************)
CONSTANTS Images, NoImage

VARIABLES
    image,          \* the application the next boot starts, or NoImage
    mode,           \* "booting", "app" or "stay"
    running         \* the application in control, NoImage if none

vars == <<image, mode, running>>

Init ==
    /\ image \in Images \cup {NoImage}
    /\ mode = "booting"
    /\ running = NoImage

\* The boot completes with the promised application,
RunApp ==
    /\ mode = "booting"
    /\ image \in Images
    /\ mode' = "app"
    /\ running' = image
    /\ UNCHANGED image

\* or in the bootloader, which waits for a download.
Stay ==
    /\ mode = "booting"
    /\ mode' = "stay"
    /\ UNCHANGED <<image, running>>

\* A download changes what the next boot starts; under a running application
\* never to nothing.
Promise ==
    /\ image' \in Images \cup {NoImage}
    /\ mode = "app" => image' # NoImage

Download ==
    /\ mode # "booting"
    /\ Promise
    /\ UNCHANGED <<mode, running>>

\* A reset, possibly in the middle of a download's write.
Reset ==
    /\ mode # "booting"
    /\ Promise
    /\ mode' = "booting"
    /\ running' = NoImage

Next == RunApp \/ Stay \/ Download \/ Reset

Spec == Init /\ [][Next]_vars

=============================================================================
