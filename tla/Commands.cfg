CONSTANTS
  None = None
  Scale = 2
  Top = 2
  ByteMax = 4
  WireMax = 8
  Catalogue <- MCCatalogue
  Identity <- MCIdentity
  Layout <- MCLayout
  Command <- MCCommand
  Schedule <- MCSchedule
  Days <- MCDays
  Registered <- MCRegistered
SPECIFICATION Spec
INVARIANTS
  ItsOwnDefinition
  NothingGuessed
  CommandsReadBack
  PlanIsWhole
