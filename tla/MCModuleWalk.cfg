SPECIFICATION Spec
CONSTANTS
  lib = lib
  a = a
  b = b
  g = g
  h = h
  off = off
  m = m
  Files = {lib, a, b, g, h, off}
  Root = lib
  Missing = Missing
  Ignored = Ignored
  Macros = {m}
  Crates <- MCCrates
  MaxIncludeDepth = 2
INVARIANTS
  TypeOK
  WalkIsExact
  TestOnlyIsExact
  SecondMeetingsAreSettled
PROPERTIES
  Terminates
CHECK_DEADLOCK FALSE
