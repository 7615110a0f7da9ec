---------------------------- MODULE PackageExport ----------------------------
(***************************************************************************)
(* internal/artifacts, what a package holds: loadItems gives every item of *)
(* the dataset a file name, and the builder writes the files and the       *)
(* entries of the manifest in the order of the items.                      *)
(*                                                                         *)
(* A file name is the sequence of its parts between dots, a part that of   *)
(* its tokens between dashes, and a token a number or another word, which  *)
(* may be empty: .jpg has two parts, the first one with an empty word.     *)
(* Two names are equal when their strings are.  Items are numbered by      *)
(* their ids.  The body of a file is what it was made from: the image of   *)
(* an item, the lines about its boxes, or a document about all items.      *)
(***************************************************************************)
EXTENDS Naturals, Sequences, FiniteSets, Functions, FiniteSetsExt

CONSTANTS
  Words,      \* what file names are made of: strings with no dot, dash or slash in them
  Keys,       \* base names of object keys
  Boxes,      \* what an item may have as boxes, as sequences of lines
  MaxItems    \* bound: items of the dataset

Word(w) == <<w, 0>>

Numeral(n) == <<"", n>>

Name == Seq(Seq(Words \X Nat) \ {<<>>}) \ {<<>>}

EmptyName == <<<<Word("")>>>>

\* The base name of a key that has none: path.Base gives "." or "/".
NoBase == <<>>

\* No key ends in "..", which is the folder above and not the name of a file.
ASSUME PackageExportAssumption ==
  /\ MaxItems \in Nat
  /\ {"", "txt"} \subseteq Words
  /\ Keys \subseteq Name \union {NoBase}

VARIABLES
  packPc,   \* where the build is
  format,
  keys,     \* the base name of every item's object key
  boxes,    \* the boxes of every item
  names,    \* OutputName of the items that have been loaded
  written,  \* the files of the package, records of path and body
  entries   \* the entries of the manifest, records of path and body

packVars == <<packPc, format, keys, boxes, names, written, entries>>

PackIdle ==
  /\ packPc = "idle"
  /\ format = ""
  /\ keys = <<>>
  /\ boxes = <<>>
  /\ names = <<>>
  /\ written = {}
  /\ entries = {}

-----------------------------------------------------------------------------
(***************************************************************************)
(* Object keys of different folders may have the same base name, and a     *)
(* base name may look like one that is made up for another item.           *)
(***************************************************************************)
LoadSnapshotBundle(f, n) ==
  /\ packPc' = "items"
  /\ format' = f
  /\ keys' \in [1..n -> Keys]
  /\ boxes' \in [1..n -> Boxes]
  /\ UNCHANGED <<names, written, entries>>

BaseName(id, key) == IF key = NoBase THEN <<<<Numeral(id)>>>> ELSE key

(***************************************************************************)
(* path.Ext is what follows the last dot, that dot included; the stem is   *)
(* what is left without it.                                                *)
(***************************************************************************)
StemLength(name) == IF Len(name) = 1 THEN 1 ELSE Len(name) - 1

Stem(name) == SubSeq(name, 1, StemLength(name))

SuffixTokens(id, suffix) ==
  IF suffix = 0 THEN <<Numeral(id)>> ELSE <<Numeral(id), Numeral(suffix)>>

Suffixed(id, base, suffix) ==
  [base EXCEPT ![StemLength(base)] = @ \o SuffixTokens(id, suffix)]

buildOutputName(id, base, used) ==
  IF base \notin used THEN base
  ELSE LET free == {n \in 0..Cardinality(used) : Suffixed(id, base, n) \notin used}
       IN Suffixed(id, base, Min(free))

loadItems ==
  LET id == Len(names) + 1
  IN /\ packPc = "items"
     /\ id \in DOMAIN keys
     /\ names' = Append(names, buildOutputName(id, BaseName(id, keys[id]), Range(names)))
     /\ UNCHANGED <<packPc, format, keys, boxes, written, entries>>

ItemsLoaded ==
  /\ packPc = "items"
  /\ Len(names) = Len(keys)
  /\ packPc' = "write"
  /\ UNCHANGED <<format, keys, boxes, names, written, entries>>

(***************************************************************************)
(* buildLabelFileName replaces the last extension; a name that is nothing  *)
(* but an extension keeps it.                                              *)
(***************************************************************************)
Txt == <<Word("txt")>>

ExtensionReplaced(name) == Append(Stem(name), Txt)

buildLabelFileName(name) ==
  Append(IF Stem(name) = EmptyName THEN name ELSE Stem(name), Txt)

ImagePath(id) == [folder |-> "images", name |-> names[id]]

LabelPath(id) == [folder |-> "labels", name |-> buildLabelFileName(names[id])]

Image(id) == [image |-> id, lines |-> <<>>, document |-> <<>>]

Lines(l) == [image |-> 0, lines |-> l, document |-> <<>>]

Listing == [image |-> 0, lines |-> <<>>,
            document |-> [id \in DOMAIN names |-> <<names[id], boxes[id]>>]]

FileOf(path, body) == [path |-> path, body |-> body]

(***************************************************************************)
(* An item's image and, for yolo, its label file.  A file that is there is *)
(* overwritten, an entry of the manifest is only ever added.               *)
(***************************************************************************)
FilesOfItem(id) ==
  {FileOf(ImagePath(id), Image(id))}
    \union (IF format = "yolo" THEN {FileOf(LabelPath(id), Lines(boxes[id]))} ELSE {})

Over(present, new) == {f \in present : \A g \in new : g.path # f.path} \union new

Write(new) ==
  /\ written' = Over(written, new)
  /\ entries' = entries \union new

ItemsWritten == {id \in DOMAIN names : \E f \in entries : f = FileOf(ImagePath(id), Image(id))}

WriteItem ==
  LET left == DOMAIN names \ ItemsWritten
  IN /\ packPc = "write"
     /\ left # {}
     /\ Write(FilesOfItem(Min(left)))
     /\ UNCHANGED <<packPc, format, keys, boxes, names>>

ReadObjectFails ==
  /\ packPc = "write"
  /\ DOMAIN names \ ItemsWritten # {}
  /\ packPc' = "failed"
  /\ UNCHANGED <<format, keys, boxes, names, written, entries>>

DataYaml == <<<<Word("data")>>, <<Word("yaml")>>>>

AnnotationsJson == <<<<Word("annotations")>>, <<Word("json")>>>>

(***************************************************************************)
(* data.yaml lists the categories, annotations.json every item's boxes.    *)
(***************************************************************************)
Document ==
  IF format = "yolo" THEN FileOf([folder |-> "", name |-> DataYaml], Lines(<<>>))
  ELSE FileOf([folder |-> "", name |-> AnnotationsJson], Listing)

WriteDocument ==
  /\ packPc = "write"
  /\ DOMAIN names = ItemsWritten
  /\ Write({Document})
  /\ packPc' = "packed"
  /\ UNCHANGED <<format, keys, boxes, names>>

PackNext ==
  \/ PackIdle /\ \E f \in {"yolo", "coco"}, n \in 0..MaxItems : LoadSnapshotBundle(f, n)
  \/ loadItems
  \/ ItemsLoaded
  \/ WriteItem
  \/ ReadObjectFails
  \/ WriteDocument

PackSpec == PackIdle /\ [][PackNext]_packVars

-----------------------------------------------------------------------------
EveryImagePacked ==
  \A id \in DOMAIN keys : FileOf(ImagePath(id), Image(id)) \in written

DifferInExtension(name, other) ==
  \/ Stem(name) = Stem(other) /\ Stem(name) # EmptyName
  \/ Stem(name) = EmptyName /\ Stem(other) = name

ShareLabels(id, other) ==
  \/ DifferInExtension(names[id], names[other])
  \/ DifferInExtension(names[other], names[id])

EveryBoxPacked ==
  \A id \in DOMAIN keys :
    \/ \E f \in written : f.path = LabelPath(id) /\ f.body = Lines(boxes[id])
    \/ \E f \in written : f.body = Listing
    \/ \E other \in DOMAIN keys : other > id /\ ShareLabels(id, other)

PackageVerifies ==
  \A f \in entries :
    \/ f \in written
    \/ \E id, other \in DOMAIN keys :
         id # other /\ LabelPath(id) = f.path /\ ShareLabels(id, other)

(***************************************************************************)
(* Build, buildOutputName, buildLabelFileName: every item's image is in    *)
(* the package under a name of its own, whatever the object keys are       *)
(* called; an item's boxes are in its label file, or in annotations.json;  *)
(* and the package verifies as it was built, each manifest entry's         *)
(* checksum being that of the file at its path. The exception are images   *)
(* that share a label file, which has the boxes of the last one: those     *)
(* whose names are the same up to the last dot, as a.jpg and a.png, and a  *)
(* name with nothing before its last dot next to one that is that name     *)
(* with one more extension, as .jpg and .jpg.png.                          *)
(***************************************************************************)
PackageIsComplete ==
  packPc = "packed" => EveryImagePacked /\ EveryBoxPacked /\ PackageVerifies

=============================================================================
