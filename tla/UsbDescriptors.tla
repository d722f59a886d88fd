---------------------------- MODULE UsbDescriptors ----------------------------
(***************************************************************************)
(* The descriptors of the drive (usb_descriptors.c).  A descriptor is a    *)
(* sequence of parts, of which only what the firmware reads while it sends *)
(* them is kept: the length that the first byte states, and the total      *)
(* length that the configuration descriptor states.  What is really there  *)
(* is the size of the structures of USB, or of the array.                  *)
(***************************************************************************)
EXTENDS Integers, SequencesExt

\* Bytes of the structures that a host takes the parts for.
StructSize == [DEVICE |-> 18, CONFIGURATION |-> 9, INTERFACE |-> 9, ENDPOINT |-> 7]

device_dsc == <<[type |-> "DEVICE", bLength |-> 18]>>

configDescriptor1 == <<
  [type |-> "CONFIGURATION", bLength |-> 9, wTotalLength |-> 32],
  [type |-> "INTERFACE", bLength |-> 9],
  [type |-> "ENDPOINT", bLength |-> 7],
  [type |-> "ENDPOINT", bLength |-> 7] >>

\* A header of two bytes, and two for each character; bLength is sizeof.
StringDescriptor(characters) == <<[type |-> "STRING", bLength |-> 2 + 2 * characters]>>

\* The language, the manufacturer, the product, the serial number.
USB_SD_Ptr == [i \in 0 .. 3 |->
  StringDescriptor(CASE i = 0 -> 1 [] i = 1 -> 12 [] i = 2 -> 6 [] i = 3 -> 7)]

USB_CD_Ptr == [i \in {0} |-> configDescriptor1]

\* The device descriptor is the same for every index.
DescriptorKeys ==
  {<<"DEVICE", 0>>} \cup ({"CONFIGURATION"} \X DOMAIN USB_CD_Ptr) \cup ({"STRING"} \X DOMAIN USB_SD_Ptr)

Descriptor(key) ==
  CASE key[1] = "DEVICE" -> device_dsc
    [] key[1] = "CONFIGURATION" -> USB_CD_Ptr[key[2]]
    [] key[1] = "STRING" -> USB_SD_Ptr[key[2]]

\* The bytes that are sent at most: what the descriptor states of itself.
BytesSent(key) ==
  LET header == Descriptor(key)[1]
  IN IF key[1] = "CONFIGURATION" THEN header.wTotalLength ELSE header.bLength

\* The bytes that there are.
BytesOfPart(part) == IF part.type = "STRING" THEN part.bLength ELSE StructSize[part.type]

BytesThere(key) == FoldSeq(LAMBDA part, bytes : bytes + BytesOfPart(part), 0, Descriptor(key))
=============================================================================
