------------------------------ MODULE MapPadding ------------------------------
(***************************************************************************)
(* Page arithmetic of the store (src/nvs/common.rs and the constants of    *)
(* src/lib.rs).  The partition is TOTAL_PAGES pages.  The first            *)
(* STATE_PAGES of them hold the state journal; the others form a ring in   *)
(* which the map (the pages that hold records) advances page by page.      *)
(* Around the map a padding is kept free of data: MAP_PRE_PADDING pages    *)
(* before its first page and MAP_POST_PADDING pages counted from it.       *)
(*                                                                         *)
(* The first map page is known by two numbers, the one the last complete   *)
(* write left (get_old_value) and the one the running operation has moved  *)
(* to (get_new_value).                                                     *)
(***************************************************************************)
EXTENDS Integers

CONSTANTS
  MAPPING_MAX_RANGE,   \* most pages the map may span
  MAP_PRE_PADDING,
  MAP_POST_PADDING,    \* counted from the first page of the map
  STATE_PAGES,
  TOTAL_PAGES

(***************************************************************************)
(* What check_consts accepts.  It compares the post padding with the map   *)
(* range; it never relates the padding to the number of pages.             *)
(***************************************************************************)
ASSUME CheckedConstants ==
  /\ MAPPING_MAX_RANGE \in Nat \ {0}
  /\ MAP_PRE_PADDING \in Nat
  /\ MAP_POST_PADDING \in Nat
  /\ STATE_PAGES \in Nat \ {0}
  /\ TOTAL_PAGES \in Nat \ {0}
  /\ MAP_POST_PADDING > MAPPING_MAX_RANGE

(* The pages of the ring: every page that is not a state page.             *)
RingPages == STATE_PAGES .. TOTAL_PAGES - 1

is_page_overrun(page) == page >= TOTAL_PAGES

(* Inclusive; a range whose start is above its end wraps around.           *)
page_in_range(page, start, end) ==
  IF start > end THEN page >= start \/ page <= end
                 ELSE start <= page /\ page <= end

get_last_map_padding_page(start_page) ==
  LET page == start_page + MAP_POST_PADDING
  IN  IF page >= TOTAL_PAGES THEN page - TOTAL_PAGES + STATE_PAGES ELSE page

get_first_map_padding_page(start_page) ==
  LET page == start_page - MAP_PRE_PADDING
  IN  IF page < STATE_PAGES THEN page + TOTAL_PAGES - STATE_PAGES ELSE page

(* From the padding before the old first page to the padding after the new *)
(* one: the map may be in the middle of a move.                            *)
page_in_map_padding(page, old, new) ==
  page_in_range(page, get_first_map_padding_page(old),
                      get_last_map_padding_page(new))

(* The pages the map has left during the running operation.                *)
is_in_old_map_page(page, old, new) ==
  new # old /\ page_in_range(page, old, new - 1)

(* Mutant: the jump lands on the last page of the padding.                 *)
next_data_page_NoPlusOne(page, old, new) ==
  LET succ == IF is_page_overrun(page + 1) THEN STATE_PAGES ELSE page + 1
  IN  IF ~page_in_map_padding(succ, old, new)
        THEN get_last_map_padding_page(new)
        ELSE succ

(***************************************************************************)
(* The page next_data_page moves the data cursor to.                       *)
(***************************************************************************)
next_data_page(page, old, new) ==
  LET succ == IF is_page_overrun(page + 1) THEN STATE_PAGES ELSE page + 1
  IN  IF ~page_in_map_padding(succ, old, new)
        THEN get_last_map_padding_page(new + 1)
        ELSE succ
===============================================================================
