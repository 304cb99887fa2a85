---------------------------- MODULE PictureStore ----------------------------
(***************************************************************************)
(* What the frame buffers of the codec promise to the base image           *)
(* decompressor, with no buffers in sight: every decompress record has a   *)
(* private place for one picture.  Decoding a record fills its place with  *)
(* some picture or leaves it blank, drawing the record shows what is in    *)
(* the place and nothing else, and only ending the band empties it.        *)
(***************************************************************************)
CONSTANTS
  Records,    \* the decompress records
  Pictures,   \* what a decoder can produce
  Blank,      \* nothing was stored for the record: it is drawn black
  Undecoded   \* the record has not been decoded, or is not in use

VARIABLES
  place,      \* what each record holds
  drawn       \* what each record's last draw showed, Undecoded if none

storeVars == <<place, drawn>>

Content == Pictures \cup {Blank}

StoreInit ==
  /\ place = [r \in Records |-> Undecoded]
  /\ drawn = [r \in Records |-> Undecoded]

(* Beginning a band for a frame that needs no decoding leaves it blank. *)
StoreBegin(r) ==
  /\ \E c \in {Undecoded, Blank} : place' = [place EXCEPT ![r] = c]
  /\ drawn' = [drawn EXCEPT ![r] = Undecoded]

StoreDecode(r) ==
  /\ place[r] = Undecoded
  /\ \E c \in Content : place' = [place EXCEPT ![r] = c]
  /\ UNCHANGED drawn

StoreDraw(r) ==
  /\ place[r] # Undecoded
  /\ drawn' = [drawn EXCEPT ![r] = place[r]]
  /\ UNCHANGED place

(* A record drawn before it was decoded is decoded first, in one call. *)
StoreDecodeAndDraw(r) ==
  /\ place[r] = Undecoded
  /\ \E c \in Content : /\ place' = [place EXCEPT ![r] = c]
                        /\ drawn' = [drawn EXCEPT ![r] = c]

StoreEnd(r) ==
  /\ place' = [place EXCEPT ![r] = Undecoded]
  /\ drawn' = [drawn EXCEPT ![r] = Undecoded]

StoreNext ==
  \E r \in Records :
    \/ StoreBegin(r)
    \/ StoreDecode(r)
    \/ StoreDraw(r)
    \/ StoreDecodeAndDraw(r)
    \/ StoreEnd(r)

StoreSpec == StoreInit /\ [][StoreNext]_storeVars

=============================================================================
