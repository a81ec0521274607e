---------------------------------- MODULE MCMrz ----------------------------------
(* A small instance of Mrz for TLC. *)
EXTENDS Mrz

\* Z1234567, K0518290 and two digits long ago: Indian numbers; 9 characters of
\* another state, which leave no filler.
Numbers == {<<35, 1, 2, 3, 4, 5, 6, 7>>, <<20, 0, 5, 1, 8, 2, 9, 0>>}
Of(number, country, sex, dob, issued, expiry) ==
    [number |-> number, country |-> country, sex |-> sex, dob |-> dob,
     issued |-> issued, expiry |-> expiry]

\* Births: the oldest one whose century is certain, a leap day, this year.
\* Expiries: past, and to come.
MCPassport ==
    {Of(n, IND, 22, d[1], d[2], d[3]) : n \in Numbers,
        d \in {<<19270101, 20150310, 20250309>>, <<20040229, 20180720, 20280719>>}}
    \cup {Of(<<35, 1, 2, 3, 4, 5, 6, 7>>, IND, 15, 20260401, 20260501, 20310430),
          Of(<<25, 1, 2, 3, 4, 5, 6, 7>>, IND, 22, 19850518, 20160901, 20260831),
          Of(<<1, 28, 3, 4, 5, 6, 7, 8>>, <<10, 23, 13>>, 22, 19850518, 20160901, 20260831),
          Of(<<3, 4, 0, 0, 2, 0, 8, 1, 5>>, <<30, 28, 10>>, 22, 19850518,
             20160901, 20260831)}

\* Two of them, with an expiry past and one to come.
MCHolder == {Of(<<35, 1, 2, 3, 4, 5, 6, 7>>, IND, 22, 19270101, 20150310, 20250309),
             Of(<<25, 1, 2, 3, 4, 5, 6, 7>>, IND, 22, 19850518, 20160901, 20260831)}
=============================================================================
