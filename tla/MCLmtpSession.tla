---------------------------- MODULE MCLmtpSession ----------------------------
EXTENDS LmtpSession, TLC

CONSTANTS m1, m2, i1, i2, i3

\* One recipient more than a transaction takes, against a single one.
Recipients == [m \in Msgs |-> IF m = m1 THEN <<i1, i2, i3>> ELSE <<i1>>]

\* The first message needs stuffing.  The second is too large, or has a line that
\* is too long before one that would end the data if it were read as the first.
Lines ==
  {[m \in Msgs |-> IF m = m1 THEN << <<".">>, <<"a">> >> ELSE second] :
     second \in {<< <<"a">>, <<"a", "a">>, <<"a">> >>, << <<"a", "a", "a">>, <<"a">> >>}}
=============================================================================
