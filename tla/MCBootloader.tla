---------------------------- MODULE MCBootloader ----------------------------
(***************************************************************************)
(* Small instances of Bootloader for TLC: what the hosts of each run send. *)
(* With MCFlashDriver, TLC also checks the address arithmetic of the flash *)
(* drivers below it.                                                       *)
(***************************************************************************)
EXTENDS Bootloader, MCFlashDriver

CONSTANTS a, b   \* two chunk contents; only a begins with a vector table

Request(image, flags, version, secver, minsrc) ==
  [target |-> TRUE, image |-> image, flags |-> flags,
   version |-> version, secver |-> secver, minsrc |-> minsrc]

SignedManifest(req) == [req |-> req, sha |-> req.image, signed |-> TRUE]
Forged(req) == [SignedManifest(req) EXCEPT !.signed = FALSE]

\* AES-CTR exchanges the two contents, whatever the offset.
MCXcrypt(i, c) == IF c = a THEN b ELSE IF c = b THEN a ELSE c

OnePagePerChunk == [i \in Slots |-> i]
TwoChunksPerPage == [i \in Slots |-> i \div 2]

-----------------------------------------------------------------------------
(* Updates of every kind, good and bad. *)
Plain == Request(<<a>>, {}, 1, 0, 0)
Protected == Request(<<a, b>>, {"sig", "ar"}, 1, 1, 0)
Newer == Request(<<a, a>>, {"sig", "ar", "enc"}, 2, 2, 1)

MixedRequests == {Plain, Protected, Newer, [Plain EXCEPT !.image = <<b>>]}
MixedManifests == {SignedManifest(Protected), Forged(Protected), SignedManifest(Newer)}

(* Updates that raise, keep or fall below the rollback floor. *)
Floor(secver, flags) == Request(<<a>>, flags, secver, secver, 0)
FloorRequests == {Floor(1, {"sig", "ar"}), Floor(2, {"sig", "ar"}), Floor(0, {})}
FloorManifests == {SignedManifest(req) : req \in FloorRequests}
FloorLegacy == {None, 1}

(* A production device: two signed updates, one nobody signed, one for another
   target, one too large. *)
SignedUpdates == {Request(<<a, b, a>>, {"sig"}, 1, 1, 0), Request(<<a>>, {"sig"}, 2, 2, 0)}
SignedRequests ==
  SignedUpdates \cup {Plain, [Plain EXCEPT !.target = FALSE],
                      Request(<<a, a, a, a>>, {"sig"}, 3, 3, 0)}
SignedManifests == {SignedManifest(req) : req \in SignedUpdates}
                     \cup {Forged(req) : req \in SignedUpdates}

(* An image that ends in a chunk of 0xFF bytes. *)
PaddedRequests == {Request(<<a, Blank>>, {}, 1, 0, 0), Request(<<a, b>>, {}, 2, 0, 0)}

==============================================================================
