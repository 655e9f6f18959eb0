---------------------------- MODULE MCPageLayout ----------------------------
(* The M08F of the manifest, and a narrow head for rolls at another          *)
(* resolution; A4, A5 and A6, of which the last two lie across the wide      *)
(* head; images of ordinary sizes, one that fits into the lead and one of a  *)
(* single row.                                                               *)
EXTENDS PageLayout

M08F == [width |-> 1680, dpi |-> 203, top |-> 1000, bottom |-> 500, sheet |-> 29700]
Narrow == [width |-> 832, dpi |-> 300, top |-> 450, bottom |-> 300, sheet |-> None]

MCProfiles == {M08F, Narrow}
MCMedia == {[width |-> 21000, length |-> 29700], [width |-> 14800, length |-> 21000],
            [width |-> 10500, length |-> 14800]}
MCImages == {[width |-> 1678, height |-> 2373], [width |-> 800, height |-> 80],
             [width |-> 3000, height |-> 1], [width |-> 1182, height |-> 1678]}
=============================================================================
