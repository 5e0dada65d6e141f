--------------------------- MODULE MCIpsMaintain ---------------------------
(***************************************************************************)
(* Two IPs and two tags.  The list fixes the order of the IPs, so they are *)
(* not interchangeable; neither are the tags, as Describe prefers one.     *)
(***************************************************************************)
EXTENDS IpsMaintain

CONSTANTS a, b

MCIpList == <<a, b>>
=============================================================================
