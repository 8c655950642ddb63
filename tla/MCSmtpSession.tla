---------------------------- MODULE MCSmtpSession ----------------------------
(* SmtpSession alone, for the run that shows a body line obeyed.             *)
EXTENDS SmtpSession

CONSTANTS dot, x, quit

BodyLines == {<<x>>, <<dot>>, <<quit>>}
=============================================================================
