------------------------------- MODULE MCPins -------------------------------
(* Instances of Pins. *)
EXTENDS Pins

\* Each use by itself, and a LUN that is also linked or exported by Samba; an
\* operator repairs LUNs by hand.
UsesMany == {{"smb"}, {"link"}, {"lun", "operator", "link"},
             {"lun", "operator", "smb"}}

\* Two Samba connections.
UsesShare == {{"smb"}}

\* A LUN nobody touches by hand.
UsesLun == {{"lun"}}

=============================================================================
