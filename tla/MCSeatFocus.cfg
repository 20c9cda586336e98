\* A client with a popup and two toplevels and one with a toplevel: the focus
\* moves within a client, from one to the other, and to nobody.
CONSTANTS
  c1 = c1
  c2 = c2
  window1 = window1
  popup1 = popup1
  dialog1 = dialog1
  window2 = window2
  Client = {c1, c2}
  Surface = {window1, popup1, dialog1, window2}
  Null = Null
  Owner <- Owners
  ParentOf <- Parents
  MaxButtons = 2
SPECIFICATION Spec
INVARIANTS
  ClientsAgree
  LayersAgree
PROPERTY GrabKept
CHECK_DEADLOCK FALSE
