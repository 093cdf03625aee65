----------------------------- MODULE MCHostLink -----------------------------
(***************************************************************************)
(* A small instance of HostLink for TLC: an unsigned update and a signed   *)
(* one, of two chunks each, a signed and an encrypted one without a        *)
(* manifest, and an image that is too large.                               *)
(***************************************************************************)
EXTENDS HostLink

CONSTANTS a, b   \* two chunk contents; only a begins with a vector table

Request(image, flags, version) ==
  [target |-> TRUE, image |-> image, flags |-> flags,
   version |-> version, secver |-> 0, minsrc |-> 0]

MCRequests == {Request(<<a, b>>, {}, 1), Request(<<a, a>>, {"sig"}, 2),
                Request(<<a, b, a>>, {}, 3), Request(<<a>>, {"sig"}, 4),
                Request(<<a>>, {"sig", "enc"}, 5)}
MCManifests == {[req |-> req, sha |-> req.image, signed |-> TRUE] :
                  req \in {r \in MCRequests : r.version = 2}}
MCXcrypt(i, c) == c
MCSeqs == (1 .. SlotChunks + 6) \cup {32765, 32766, 32767}
MCPageOf == [i \in Slots |-> i]

==============================================================================
