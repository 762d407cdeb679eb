------------------------------ MODULE MCListing -------------------------------
(* An instance of Listing for TLC: two plain keys around a folder of two.  *)
EXTENDS ListingInduction

CONSTANTS g

FourKeys == 1..4
FolderInTheMiddle == [k \in FourKeys |-> IF k \in {2, 3} THEN g ELSE None]
===============================================================================
