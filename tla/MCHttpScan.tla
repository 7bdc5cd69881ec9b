----------------------------- MODULE MCHttpScan -----------------------------
(***************************************************************************)
(* Four signatures over two headers: a single element, one of no known     *)
(* class whose id is the one of a header, two elements in one header, and  *)
(* one that spans both headers.  The arrays are small enough to be filled. *)
(***************************************************************************)
EXTENDS HttpScan

MCSigs == << <<1>>, <<0>>, <<1, 1>>, <<1, 4>> >>
MCHeaderIds == {1, 4}

(* Pointers that name no header, header 4, an element of another class     *)
(* under header 1, and, under header 1, no element at all.                 *)
MCPointers == {[class |-> 9, low |-> 0], [class |-> 0, low |-> 4],
               [class |-> 1, low |-> 5], [class |-> 1, low |-> 50]}

(* A header of two bytes and an element of class 1. *)
MCRegexIds == {[class |-> 0, low |-> 1, len |-> 2, text |-> 2],
               [class |-> 1, low |-> 1, len |-> 0, text |-> 1]}

(* An HTTP signature with an unknown element name and sig_id 0x200, whose  *)
(* text is one byte long.                                                  *)
MCUnknownName == {[class |-> 0, low |-> 0, len |-> 2, text |-> 1]}
=============================================================================
