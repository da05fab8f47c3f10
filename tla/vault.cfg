SPECIFICATION MCSpec
CONSTANTS
  Sessions = {phone, desk}
  phone = phone
  desk = desk
  Shells = {shell, console}
  console = console
  shell = shell
  Founders = {phone}
  Phrases = {old, new}
  old = old
  new = new
  Units = {"envfile"}
  MaxItems = 3
  MaxChanges = 2
  MaxCrashes = 1
  MaxFaults = 1
SYMMETRY AnyPhrase
INVARIANTS
  Recoverable
  LeftoverNamed
PROPERTIES
  
  SealedBeforeDestroyed
CONSTRAINT Bounded
CHECK_DEADLOCK FALSE
