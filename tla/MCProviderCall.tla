--------------------------- MODULE MCProviderCall ---------------------------
(* One status per verdict, and usage that is right, does not add up, lacks a *)
(* count, has an invalid one, or claims too much reasoning.                  *)
EXTENDS ProviderCall

U(p, c, t, r) == [prompt |-> p, completion |-> c, total |-> t, reasoning |-> r]
MCUsages == {U(2, 1, 3, Absent), U(2, 1, 2, Absent), U(2, 1, 3, 2), U(2, Absent, 2, Absent),
             U(2, Bad, 3, Absent), U(Absent, Absent, Absent, 1)}
MCStatuses == {200, 302, 400, 401, 404, 418, 422, 429, 500, 503, 504}
=============================================================================
