--------------------------- MODULE MCSeedSchedule ---------------------------
(***************************************************************************)
(* Three seeds for two slots.  Seeds 1 and 2 share a host; 1 redirects to  *)
(* the host of 3; 2 has two pages, of which one takes a turn, on the other *)
(* host, and one is skipped before it asks for any.                        *)
(***************************************************************************)
EXTENDS SeedSchedule

BatchPages == [s \in Seeds |-> IF s = 2 THEN 2 ELSE 0]
BatchRoute == [j \in Jobs |->
    CASE j = <<1, 0>> -> <<"x", "y">>
      [] j = <<2, 1>> -> <<>>
      [] j = <<2, 2>> -> <<"y">>
      [] j[1] = 3     -> <<"y">>
      [] OTHER        -> <<"x">>]
=============================================================================
