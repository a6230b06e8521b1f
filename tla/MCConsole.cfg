CONSTANTS
  VGA_WIDTH = 2
  VGA_HEIGHT = 2
  Junk = "junk"
  Width = 12
  PRINTK_BUF_SIZE = 5
  Messages <- MCMessages
  EchoChars <- MCEchoChars
  PrintChars = {"1"}
  MaxOthers = 1
SPECIFICATION ConsoleSpec
INVARIANTS
  CursorOnScreen
  ScreenShowsPaper
  FitsBuffer
  PrintsMessage
