------------------------------ MODULE MCListing ------------------------------
(***************************************************************************)
(* A small instance of Listing: three accounts and up to two more, in      *)
(* pages of two.                                                           *)
(***************************************************************************)
EXTENDS ListingProperties

MCFirst == <<1, 2, 3>>

B(pulls, creates, deletes, edits, limits, errors) ==
    [pull |-> pulls, create |-> creates, delete |-> deletes, edit |-> edits,
     limit |-> limits, error |-> errors]
MCBounds == {B(0, 2, 2, 0, 0, 0), B(1, 1, 1, 0, 0, 0), B(1, 0, 1, 1, 0, 0),
             B(0, 1, 1, 2, 0, 0), B(0, 1, 1, 0, 2, 1)}
=============================================================================
