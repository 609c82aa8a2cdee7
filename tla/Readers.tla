------------------------------ MODULE Readers ------------------------------
(***************************************************************************)
(* What the programs of cpmtools3 do before, beside and without changing a *)
(* directory: each reads the definition of its format (DiskDefs), mounts   *)
(* the image (Geometry), and lists it (Listing), shows it (Viewer), makes  *)
(* it (Mkfs), converts texts (HostText) or time stamps (Stamps).           *)
(***************************************************************************)
EXTENDS Listing, Viewer, Mkfs, HostText, Stamps

work    == <<view, ls, mk, txt, st>>
allvars == <<def, geo, view, ls, mk, txt, st>>

Idle == /\ view = NoView /\ ls = NoListing /\ mk = NoMkfs
        /\ txt = NoText /\ st = NoStamps

ReadersInit ==
  /\ \E text \in DefTexts, format \in Formats : def = Reader(text, format)
  /\ geo = NoGeo
  /\ Idle

Definition ==
  /\ \/ DefStep /\ UNCHANGED geo
     \/ SetGeometry
  /\ UNCHANGED work

\* One program is at work on the image.
Begin ==
  /\ Mounted /\ Idle
  /\ \/ ViewStart /\ UNCHANGED <<ls, mk, txt, st>>
     \/ LsStart /\ UNCHANGED <<view, mk, txt, st>>
     \/ MkStart /\ UNCHANGED <<view, ls, txt, st>>
     \/ TextStart /\ UNCHANGED <<view, ls, mk, st>>
     \/ StampsStart /\ UNCHANGED <<view, ls, mk, txt>>
  /\ UNCHANGED <<def, geo>>

Work ==
  /\ \/ ViewStep /\ UNCHANGED <<ls, mk, txt, st>>
     \/ LsStep /\ UNCHANGED <<view, mk, txt, st>>
     \/ MkStep /\ UNCHANGED <<view, ls, txt, st>>
     \/ TextStep /\ UNCHANGED <<view, ls, mk, st>>
     \/ StampStep /\ UNCHANGED <<view, ls, mk, txt>>
  /\ UNCHANGED <<def, geo>>

ReadersNext == Definition \/ Begin \/ Work

ReadersSpec == ReadersInit /\ [][ReadersNext]_allvars

\* Everything the programs keep has its type: positions that lie in what they
\* point into, and settings that no step leaves half made.
ReadersTypeOK ==
  /\ def.phase \in {"none", "boot", "lines", "checks", "read", "refused"}
  /\ def.phase = "lines" => def.ln \in 1 .. Len(def.text) + 1
  /\ Mounted => /\ geo.size \in Nat /\ geo.extents \in Nat \ {0}
                /\ geo.skewtab \in [0 .. geo.sectrk - 1 -> 0 .. geo.sectrk - 1]
                /\ geo.dirblks \in 1 .. geo.size
  /\ view.phase \in {"none", "draw", "key", "end"}
  /\ ls.phase \in {"none", "glob", "list", "end"}
  /\ ls # NoListing => ls.file \in DOMAIN ls.dir \cup {NoStat}
  /\ mk.phase \in {"none", "boot", "directory", "stamper", "end", "failed"}
  /\ mk # NoMkfs => \A r \in DOMAIN mk.image : mk.image[r] \in Contents
  /\ txt.phase \in {"none", "in", "read", "out", "end", "failed"}
  /\ txt # NoText => Len(txt.round) <= (IF RoundIn < RoundOut THEN RoundOut
                                        ELSE RoundIn + 1)
  /\ st.phase \in {"none", "run"}
  /\ st # NoStamps => \A i \in DOMAIN st.sfcb : st.sfcb[i] \in 0 .. 255

=============================================================================
