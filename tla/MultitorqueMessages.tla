------------------------ MODULE MultitorqueMessages ------------------------
(***************************************************************************)
(* The messages of the Multitorque protocol between the computer and an    *)
(* AME board (AME/MultitorqueEncoder.cpp, AME/Multitorque.h).  A message   *)
(* is the sequence of the types of its fields, in the order its encode()   *)
(* writes and its decode() reads them after the header.                    *)
(***************************************************************************)
EXTENDS Integers, Sequences

Repeat(n, type) == [i \in 1..n |-> type]

(* Enumerations travel as the int32_t they are cast to. *)
BoardReturnCode == "int32"
SampleStreamPolicy == "int32"
MacAddressReturnCode == "int32"

(* Board information, calibration and faults. *)
GetBoardInfo == <<>>
ReplyBoardInfo == <<"uint32">>
CalibrateOffsets == <<>>
ReplyCalibrateOffsets == <<BoardReturnCode>>
GetFault == <<>>
ReplyFault == <<"uint32">>
ClearFault == <<BoardReturnCode>>
ReplyClearFault == <<"uint32">>

(* Sampling and temperature. *)
SetSampleStreamPolicy == <<SampleStreamPolicy, "uint32">>
ReplySetSampleStreamPolicy == <<BoardReturnCode>>
GetSampleStreamPolicy == <<>>
ReplyGetSampleStreamPolicy == <<SampleStreamPolicy>>
SetTempFactors == Repeat(6, "uint32")
ReplySetTempFactors == <<SampleStreamPolicy>>
GetCalibrationTemp == <<>>
ReplyGetCalibrationTemp == <<"int32">>

(* Calibration data and samples. *)
SetCalibrationMatrixRow == <<"uint32">> \o Repeat(6, "float")
ReplySetCalibrationMatrixRow == <<BoardReturnCode>>
GetCalibrationMatrixRow == <<"uint32">>
ReplyGetCalibrationMatrixRow == <<"uint32">> \o Repeat(6, "float")
GetCalibrationOffsets == <<>>
ReplyGetCalibrationOffsets == Repeat(6, "uint32")
BCastSensorData == Repeat(12, "float")

(* Parameters, network addresses and inventory. *)
SaveParamsOnFlash == <<>>
SetIpAddress == <<"uint32">>
GetIpAddress == <<>>
ReplyGetIpAddress == <<"uint32">>
SetMacAddress == Repeat(8, "uint8")
ReplySetMacAddress == <<MacAddressReturnCode>>
GetMacAddress == <<>>
ReplyGetMacAddress == Repeat(8, "uint8")
SetNetmask == <<"uint32">>
GetNetmask == <<>>
ReplyGetNetmask == <<"uint32">>
SetGateway == <<"uint32">>
GetGateway == <<>>
ReplyGetGateway == <<"uint32">>
SaveInventoryDataOnFlash == Repeat(5, "uint32")
LoadInventoryDataFromFlash == <<>>
ReplyLoadInventoryDataFromFlash == Repeat(5, "uint32")

(* A message is identified by its place: its MESSAGE_ID__ constant. *)
Fields == <<
    GetBoardInfo, ReplyBoardInfo, CalibrateOffsets, ReplyCalibrateOffsets,
    GetFault, ReplyFault, ClearFault, ReplyClearFault,
    SetSampleStreamPolicy, ReplySetSampleStreamPolicy,
    GetSampleStreamPolicy, ReplyGetSampleStreamPolicy, SetTempFactors,
    ReplySetTempFactors, GetCalibrationTemp, ReplyGetCalibrationTemp,
    SetCalibrationMatrixRow, ReplySetCalibrationMatrixRow,
    GetCalibrationMatrixRow, ReplyGetCalibrationMatrixRow,
    GetCalibrationOffsets, ReplyGetCalibrationOffsets, BCastSensorData,
    SaveParamsOnFlash, SetIpAddress, GetIpAddress, ReplyGetIpAddress,
    SetMacAddress, ReplySetMacAddress, GetMacAddress, ReplyGetMacAddress,
    SetNetmask, GetNetmask, ReplyGetNetmask, SetGateway, GetGateway,
    ReplyGetGateway, SaveInventoryDataOnFlash, LoadInventoryDataFromFlash,
    ReplyLoadInventoryDataFromFlash >>

Ids == 1..40
=============================================================================
